---- MODULE Spec2Model ----
(***************************************************************************)
(* Model of the circular scraper of ipo-unlock-tracker                     *)
(* (src/circular-scraper.js): the resolution protocol getUnlockPercentages *)
(* (NSE lookup, BSE SME search, BSE identifier scan, delegation), the      *)
(* document retriever (checkNotice, downloadBSEPDF and their curl          *)
(* fallback) and the session cache getBSESession.                          *)
(*                                                                         *)
(* Spec        one resolution attempt, one step per suspension point.      *)
(* SpecSession callers of getBSESession interleaving at its await, with a  *)
(*             clock.                                                      *)
(***************************************************************************)
EXTENDS Integers, Sequences, FiniteSets, TLC

\* ------------------------------------------------------------------ bounds

\* The model probes at most MaxBatch identifiers per batch, MaxId identifiers
\* per date and MaxOffset days around the listing date; the source's own
\* constants (BATCH_SIZE, MAX_ID, MAX_OFFSET) are capped by them.
MaxBatch == 2
MaxId == 3
MaxOffset == 1
\* The clock of SpecSession advances by TickStep minutes up to MaxNow.
TickStep == 5
MaxNow == 20
\* Documents have at most MaxRows rows below their header, the aggregator is
\* given at most MaxEntries entries, a notice page has at most MaxLinks links.
MaxRows == 3
MaxEntries == 3
MaxLinks == 2
MaxCompanies == 2
\* Number of concurrent callers of getBSESession in SpecSession.
NumCallers == 2

\* ------------------------------------------------------- program constants

BATCH_SIZE == 10
MAX_ID == 100
MAX_OFFSET == 5
\* BSE_COOKIE_TTL = 10 * 60 * 1000 ms; the model's time unit is the minute.
BSE_COOKIE_TTL == 10
\* downloadBSEPDF: buffer.length < 100 is rejected.
MIN_PDF_BYTES == 100

Min(a, b) == IF a < b THEN a ELSE b

BatchWidth == Min(BATCH_SIZE, MaxBatch)
LastId == Min(MAX_ID, MaxId)
ScanRadius == Min(MAX_OFFSET, MaxOffset)

\* ------------------------------------------------------------------ strings

\* A string whose characters matter is a sequence of one-character strings.
ToUpperChar(c) ==
    CASE c = "a" -> "A"
      [] c = "b" -> "B"
      [] c = "c" -> "C"
      [] c = "d" -> "D"
      [] c = "e" -> "E"
      [] c = "f" -> "F"
      [] c = "g" -> "G"
      [] c = "h" -> "H"
      [] c = "i" -> "I"
      [] c = "j" -> "J"
      [] c = "k" -> "K"
      [] c = "l" -> "L"
      [] c = "m" -> "M"
      [] c = "n" -> "N"
      [] c = "o" -> "O"
      [] c = "p" -> "P"
      [] c = "q" -> "Q"
      [] c = "r" -> "R"
      [] c = "s" -> "S"
      [] c = "t" -> "T"
      [] c = "u" -> "U"
      [] c = "v" -> "V"
      [] c = "w" -> "W"
      [] c = "x" -> "X"
      [] c = "y" -> "Y"
      [] c = "z" -> "Z"
      [] OTHER -> c

ToUpperCase(s) == [i \in 1..Len(s) |-> ToUpperChar(s[i])]

Includes(s, sub) ==
    \E i \in 1..(Len(s) - Len(sub) + 1) : SubSeq(s, i, i + Len(sub) - 1) = sub

\* (exchange || '').toUpperCase().includes('BSE')
IsBSEHint(exchange) == Includes(ToUpperCase(exchange), <<"B", "S", "E">>)

\* -------------------------------------------------------------------- dates

\* new Date(listingDateISO): the day number (days since 1970-01-01) of a
\* well-formed ISO date, NaN for anything else.
ParseISODate(iso) ==
    IF iso = "2025-09-30"
    THEN [valid |-> TRUE, day |-> 20361]
    ELSE [valid |-> FALSE, day |-> 0]

\* Calendar date of a day number (proleptic Gregorian calendar).
CivilFromDays(z0) ==
    LET z == z0 + 719468
        era == z \div 146097
        doe == z - era * 146097
        yoe == (doe - doe \div 1460 + doe \div 36524 - doe \div 146096) \div 365
        doy == doe - (365 * yoe + yoe \div 4 - yoe \div 100)
        mp == (5 * doy + 2) \div 153
        d == doy - (153 * mp + 2) \div 5 + 1
        m == IF mp < 10 THEN mp + 3 ELSE mp - 9
        y == yoe + era * 400 + (IF m <= 2 THEN 1 ELSE 0)
    IN [y |-> y, m |-> m, d |-> d]

\* `${y}${m padded to 2}${d padded to 2}`, read as the number YYYYMMDD.
formatDateForNotice(day) ==
    LET c == CivilFromDays(day) IN c.y * 10000 + c.m * 100 + c.d

\* The for loop of findBSENotice: offset 0..5, the earlier day pushed before
\* the later one for every offset > 0.
RECURSIVE PushDates(_, _, _)
PushDates(listDay, offset, acc) ==
    IF offset > ScanRadius THEN acc
    ELSE LET back == IF offset > 0
                     THEN Append(acc, formatDateForNotice(listDay - offset))
                     ELSE acc
         IN PushDates(listDay, offset + 1,
                      Append(back, formatDateForNotice(listDay + offset)))

\* [...new Set(datesToScan)]: first occurrences, in insertion order.
RECURSIVE Dedup(_, _)
Dedup(s, acc) ==
    IF s = <<>> THEN acc
    ELSE IF \E i \in 1..Len(acc) : acc[i] = Head(s)
         THEN Dedup(Tail(s), acc)
         ELSE Dedup(Tail(s), Append(acc, Head(s)))

DatesToScan(listDay) == Dedup(PushDates(listDay, 0, <<>>), <<>>)

\* ------------------------------------------------------------ session cache

\* JavaScript truthiness of the cookie string: null and '' are falsy.
Truthy(cookies) == cookies \notin {"null", ""}

\* if (bseCookies && (now - bseCookieTime) < BSE_COOKIE_TTL) return bseCookies;
CacheFresh(cookies, cookieTime, t) ==
    Truthy(cookies) /\ (t - cookieTime) < BSE_COOKIE_TTL

\* Outcome of the homepage visit: set-cookie headers present, absent, or the
\* request threw.
HomepageOutcomes == {"cookies", "nocookies", "failed"}

HarvestCookies(outcome) == IF outcome = "cookies" THEN "sid=1" ELSE ""

\* ------------------------------------------------------------ input domains

\* Company names with their normalized search string (findBSENotice: upper
\* case, legal suffix and punctuation stripped).
CompanyNames == {"", "Acme Ltd"}

NormalizedSearch(companyName) == IF companyName = "Acme Ltd" THEN "ACME" ELSE ""

ListingDates == {"", "not-a-date", "2025-09-30"}

ExchangeHints ==
    { <<>>, <<"N", "S", "E">>, <<"B", "S", "E">>, <<"b", "s", "e", " ", "s", "m", "e">> }

\* A notice identifier `${dateStr}-${i}` is the pair <<dateStr, i>>.
NoId == <<0, 0>>
SMENoticeIds == { <<20250930, 7>> }

NoNotice == [found |-> FALSE, noticeId |-> NoId, annexureUrl |-> "null"]

\* What a notice URL can serve: no body, a body cheerio cannot work on, or a
\* page (listing marker present, company named, annexure link present).
NoHtml == [kind |-> "null", listing |-> FALSE, named |-> FALSE, annexure |-> FALSE]
HtmlPages ==
    { [kind |-> "empty", listing |-> FALSE, named |-> FALSE, annexure |-> FALSE],
      [kind |-> "garbled", listing |-> FALSE, named |-> FALSE, annexure |-> FALSE],
      [kind |-> "html", listing |-> TRUE, named |-> TRUE, annexure |-> TRUE],
      [kind |-> "html", listing |-> TRUE, named |-> TRUE, annexure |-> FALSE],
      [kind |-> "html", listing |-> TRUE, named |-> FALSE, annexure |-> TRUE],
      [kind |-> "html", listing |-> FALSE, named |-> FALSE, annexure |-> TRUE] }

\* Response of the primary client (validateStatus: status < 500, so a 5xx
\* status, a timeout and a network error all throw).
NoticeResponses ==
    { [kind |-> "403", page |-> NoHtml], [kind |-> "4xx", page |-> NoHtml],
      [kind |-> "throw", page |-> NoHtml] }
    \cup { [kind |-> "ok", page |-> h] : h \in HtmlPages }

\* curlFetchHTML: the output of the command, or null when it fails.
CurlHtmlResults == {NoHtml} \cup HtmlPages

\* curl runs only after a 403 answer or a throw of the primary client.
CurlHtmlRuns(resp) ==
    IF resp.kind \in {"403", "throw"} THEN CurlHtmlResults ELSE {NoHtml}

PayloadLengths == {99, 100}

PdfResponses ==
    { [kind |-> "403", len |-> 0], [kind |-> "404", len |-> 0],
      [kind |-> "throw", len |-> 0] }
    \cup { [kind |-> "200", len |-> n] : n \in PayloadLengths }

\* curlFetchBinary: a buffer, or null when the command fails.
CurlBinaryResults ==
    { [ok |-> FALSE, len |-> 0] } \cup { [ok |-> TRUE, len |-> n] : n \in PayloadLengths }

\* curl runs unless the primary client answered 200.
CurlBinaryRuns(resp) ==
    IF resp.kind = "200" THEN {[ok |-> FALSE, len |-> 0]} ELSE CurlBinaryResults

\* parseLockInData on a document: it throws, or returns a schedule.
EmptySchedule == [totalShares |-> 0, unlockEvents |-> <<>>]
Schedules ==
    { EmptySchedule,
      [totalShares |-> 8000, unlockEvents |->
          <<[date |-> "null", shares |-> 3000], [date |-> "2026-01-15", shares |-> 5000]>>] }
ParseOutcomes ==
    { [raised |-> TRUE, data |-> EmptySchedule] }
    \cup { [raised |-> FALSE, data |-> s] : s \in Schedules }

\* The circulars of an NSE API answer: does the filter keep it, and its
\* circFilelink.
NoCircular == [found |-> FALSE, zipUrl |-> "null", displayNo |-> "none"]
Circulars ==
    { [keep |-> FALSE, zipUrl |-> "zip", displayNo |-> "NSE/CML/1"],
      [keep |-> TRUE, zipUrl |-> "zip", displayNo |-> "NSE/CML/2"],
      [keep |-> TRUE, zipUrl |-> "null", displayNo |-> "NSE/CML/3"] }
NSEApiResponses ==
    { [kind |-> "throw", data |-> <<>>], [kind |-> "nodata", data |-> <<>>] }
    \cup { [kind |-> "data", data |-> <<>>] }
    \cup { [kind |-> "data", data |-> <<c>>] : c \in Circulars }
    \cup { [kind |-> "data", data |-> <<c, d>>] : c \in Circulars, d \in Circulars }

\* The links of the bsesme.com notice list: does the link text match the
\* company words, and the page= identifier of its href (NoId: none).
SMELinks ==
    { [matches |-> FALSE, page |-> id] : id \in SMENoticeIds }
    \cup { [matches |-> TRUE, page |-> NoId] }
    \cup { [matches |-> TRUE, page |-> id] : id \in SMENoticeIds }
SMEResponses ==
    { [kind |-> "throw", links |-> <<>>], [kind |-> "ok", links |-> <<>>] }
    \cup { [kind |-> "ok", links |-> <<l>>] : l \in SMELinks }
    \cup { [kind |-> "ok", links |-> <<l, m>>] : l \in SMELinks, m \in SMELinks }

\* --------------------------------------------------------- pure operations

\* findNSECircular: circulars.filter(...)[0], or null (also on an API error
\* or an answer without data).
RECURSIVE FirstKept(_)
FirstKept(cs) ==
    IF cs = <<>> THEN NoCircular
    ELSE IF Head(cs).keep
         THEN [found |-> TRUE, zipUrl |-> Head(cs).zipUrl, displayNo |-> Head(cs).displayNo]
         ELSE FirstKept(Tail(cs))

FindNSECircularResult(resp) ==
    IF resp.kind = "data" THEN FirstKept(resp.data) ELSE NoCircular

\* getUnlockPercentages: if (lockInData.unlockEvents.length > 0)
NSEAccepts_Any(lockInData) == TRUE

NSEAccepts(lockInData) == Len(lockInData.unlockEvents) > 0

\* searchBSESMENotices: the notice id of the first link that matches and has
\* a page= identifier (NoId: the loop ends without one).
RECURSIVE FirstSMEHit(_)
FirstSMEHit(links) ==
    IF links = <<>> THEN NoId
    ELSE IF Head(links).matches /\ Head(links).page # NoId
         THEN Head(links).page
         ELSE FirstSMEHit(Tail(links))

\* searchBSESMENotices: if (noticeResult) return noticeResult;
\*                      return { noticeId, annexureUrl: null, title }
SMEResult_DropPartial(noticeId, noticeResult) == noticeResult

SMEResult(noticeId, noticeResult) ==
    IF noticeResult.found THEN noticeResult
    ELSE [found |-> TRUE, noticeId |-> noticeId, annexureUrl |-> "null"]

\* parseNoticeHTML: it throws on a body it cannot work on; with a non-empty
\* search string the page must be a listing notice naming the company; the
\* result is null unless an annexure link is found.
ParseNoticeHTML(html, noticeId, normalizedSearch) ==
    IF html.kind = "garbled" THEN [raised |-> TRUE, value |-> NoNotice]
    ELSE IF normalizedSearch # "" /\ (~html.listing \/ ~html.named)
         THEN [raised |-> FALSE, value |-> NoNotice]
         ELSE IF ~html.annexure
              THEN [raised |-> FALSE, value |-> NoNotice]
              ELSE [raised |-> FALSE,
                    value |-> [found |-> TRUE, noticeId |-> noticeId, annexureUrl |-> "url"]]

PendingProbe ==
    [st |-> "pending", value |-> NoNotice, primary |-> "none", attempts |-> <<"axios">>]

Settled(value, primary, attempts) ==
    [st |-> "fulfilled", value |-> value, primary |-> primary, attempts |-> attempts]

\* checkNotice without the outer try/catch: a throwing parse rejects.
CheckNotice_NoCatch(noticeId, normalizedSearch, resp, curl) ==
    LET viaCurl == resp.kind \in {"403", "throw"}
        html == IF viaCurl THEN curl ELSE resp.page
        attempts == IF viaCurl THEN <<"axios", "curl">> ELSE <<"axios">>
        parsed == ParseNoticeHTML(html, noticeId, normalizedSearch)
    IN IF resp.kind = "4xx" \/ html.kind \in {"null", "empty"}
       THEN Settled(NoNotice, resp.kind, attempts)
       ELSE IF parsed.raised
            THEN [Settled(NoNotice, resp.kind, attempts) EXCEPT !.st = "rejected"]
            ELSE Settled(parsed.value, resp.kind, attempts)

\* checkNotice retrying the primary client after a failed fallback.
CheckNotice_Retry(noticeId, normalizedSearch, resp, curl) ==
    LET viaCurl == resp.kind \in {"403", "throw"}
        html == IF viaCurl THEN curl ELSE resp.page
        attempts == IF viaCurl
                    THEN IF curl.kind = "null" THEN <<"axios", "curl", "axios">>
                         ELSE <<"axios", "curl">>
                    ELSE <<"axios">>
        parsed == ParseNoticeHTML(html, noticeId, normalizedSearch)
    IN IF resp.kind = "4xx" \/ html.kind \in {"null", "empty"} \/ parsed.raised
       THEN Settled(NoNotice, resp.kind, attempts)
       ELSE Settled(parsed.value, resp.kind, attempts)

\* checkNotice: the primary client, then curlFetchHTML when it answers 403 or
\* throws; any other status >= 400 and an empty body give null; whatever is
\* thrown inside is caught and gives null.
CheckNotice(noticeId, normalizedSearch, resp, curl) ==
    LET viaCurl == resp.kind \in {"403", "throw"}
        html == IF viaCurl THEN curl ELSE resp.page
        attempts == IF viaCurl THEN <<"axios", "curl">> ELSE <<"axios">>
        parsed == ParseNoticeHTML(html, noticeId, normalizedSearch)
    IN IF resp.kind = "4xx" \/ html.kind \in {"null", "empty"} \/ parsed.raised
       THEN Settled(NoNotice, resp.kind, attempts)
       ELSE Settled(parsed.value, resp.kind, attempts)

NoFetch == [st |-> "none", len |-> 0, primary |-> "none", attempts |-> <<>>]

\* downloadBSEPDF: a 200 answer of the primary client is returned as it is;
\* otherwise curlFetchBinary, whose buffer is rejected when null or shorter
\* than 100 bytes.
DownloadBSEPDF(resp, curl) ==
    IF resp.kind = "200"
    THEN [st |-> "returned", len |-> resp.len, primary |-> resp.kind,
          attempts |-> <<"axios">>]
    ELSE IF ~curl.ok \/ curl.len < MIN_PDF_BYTES
         THEN [st |-> "raised", len |-> 0, primary |-> resp.kind,
               attempts |-> <<"axios", "curl">>]
         ELSE [st |-> "returned", len |-> curl.len, primary |-> resp.kind,
               attempts |-> <<"axios", "curl">>]

\* ------------------------------------------------------------------ results

Pending == [pending |-> TRUE]
NotFound == [null |-> TRUE]

ScheduleResult(lockInData, source, noticeId, t) ==
    [totalShares |-> lockInData.totalShares, unlockEvents |-> lockInData.unlockEvents,
     source |-> source, noticeId |-> noticeId, fetchedAt |-> t]

ClientFetchSignal(noticeId) ==
    [needsClientFetch |-> TRUE, bseNoticeId |-> noticeId, source |-> "BSE"]

BSESearchSignal(listingDateISO, companyName) ==
    [needsBSESearch |-> TRUE, listingDate |-> listingDateISO,
     companyName |-> companyName, source |-> "BSE"]

\* The tail without the test of the exchange hint.
NoNoticeResult_Always(request) ==
    BSESearchSignal(request.listingDateISO, request.companyName)

\* The tail of getUnlockPercentages once findBSENotice returned nothing.
NoNoticeResult(request) ==
    IF IsBSEHint(request.exchange)
    THEN BSESearchSignal(request.listingDateISO, request.companyName)
    ELSE NotFound

\* ------------------------------------------------------------ document text

\* The text pdf-parse gives for a document is a sequence of tokens: the
\* tokens of a row are separated by one blank, rows by one newline (the token
\* "nl").  A token is
\*   "num"       a digit run (digits: its characters),
\*   "date"      DD-Mon-YYYY (date: day, month name, year),
\*   "free"      the word Free,
\*   "lockin"    the header phrase "Lock in up to",
\*   "annexure"  the heading "Annexure-I",
\*   "word"      any other text of len characters without digits,
\*   "nl"        the newline between two rows.
NoDateText == [d |-> 0, mon |-> "", y |-> 0]

Num(ds) == [k |-> "num", digits |-> ds, date |-> NoDateText, len |-> Len(ds)]
DateTok(d, mon, y) ==
    [k |-> "date", digits |-> <<>>, date |-> [d |-> d, mon |-> mon, y |-> y], len |-> 11]
FreeTok == [k |-> "free", digits |-> <<>>, date |-> NoDateText, len |-> 4]
LockInTok == [k |-> "lockin", digits |-> <<>>, date |-> NoDateText, len |-> 13]
AnnexureTok == [k |-> "annexure", digits |-> <<>>, date |-> NoDateText, len |-> 10]
Word(n) == [k |-> "word", digits |-> <<>>, date |-> NoDateText, len |-> n]
NL == [k |-> "nl", digits |-> <<>>, date |-> NoDateText, len |-> 1]

\* Decimal digits of a number of the text (n > 0), and of a year.
RECURSIVE Digits(_)
Digits(n) == IF n < 10 THEN <<n>> ELSE Append(Digits(n \div 10), n % 10)

\* parseInt(str, 10) on a digit string; the empty string gives NaN, which
\* parseIndianNumber turns into 0 (parseInt(...) || 0).
RECURSIVE ParseInt(_)
ParseInt(ds) ==
    IF ds = <<>> THEN 0
    ELSE 10 * ParseInt(SubSeq(ds, 1, Len(ds) - 1)) + ds[Len(ds)]

parseIndianNumber(ds) == ParseInt(ds)

\* text.replace(/\s+/g, ' '): the newlines become blanks.
RECURSIVE Normalize(_)
Normalize(toks) ==
    IF toks = <<>> THEN <<>>
    ELSE IF Head(toks).k = "nl" THEN Normalize(Tail(toks))
         ELSE <<Head(toks)>> \o Normalize(Tail(toks))

\* Number of characters between the end of token i and the start of token
\* i + 1: a newline token is the separator itself.
SepAfter(toks, i) ==
    IF i >= Len(toks) THEN 0
    ELSE IF toks[i].k = "nl" \/ toks[i + 1].k = "nl" THEN 0 ELSE 1

\* Character index of the first character of token i.
RECURSIVE Offset(_, _)
Offset(toks, i) ==
    IF i <= 1 THEN 0
    ELSE Offset(toks, i - 1) + toks[i - 1].len + SepAfter(toks, i - 1)

EndOffset(toks, i) == Offset(toks, i) + toks[i].len

\* The months table of parseBSEDate, keyed by the first three letters in
\* lower case; -1 stands for undefined.
MonthIndex(mon) ==
    CASE mon = "Jan" -> 0 [] mon = "Feb" -> 1 [] mon = "Mar" -> 2
      [] mon = "Apr" -> 3 [] mon = "May" -> 4 [] mon = "Jun" -> 5
      [] mon = "Jul" -> 6 [] mon = "Aug" -> 7 [] mon = "Sep" -> 8
      [] mon = "Oct" -> 9 [] mon = "Nov" -> 10 [] mon = "Dec" -> 11
      [] OTHER -> 0 - 1

\* Day number (days since 1970-01-01) of a calendar date.
DaysFromCivil(y0, m, d) ==
    LET y == IF m <= 2 THEN y0 - 1 ELSE y0
        era == y \div 400
        yoe == y - era * 400
        mp == (m + 9) % 12
        doy == (153 * mp + 2) \div 5 + d - 1
        doe == yoe * 365 + yoe \div 4 - yoe \div 100 + doy
    IN era * 146097 + doe - 719468

\* parseBSEDate on DD-Mon-YYYY: new Date(year, month, day), local midnight of
\* that date, or null when the month name is unknown.
NoLocalDate == [ok |-> FALSE, day |-> 0, year |-> 0]
LocalDate(date, mon) ==
    IF MonthIndex(mon) < 0 THEN NoLocalDate
    ELSE [ok |-> TRUE, day |-> DaysFromCivil(date.y, MonthIndex(mon) + 1, date.d),
          year |-> date.y]

\* Of the month strings of the model only "Aul!" holds a character that \w
\* does not match.
IsWordMonth(mon) == mon # "Aul!"

\* .replace(/Aul!\.?/i, 'Aug').replace(/Mav/i, 'May')
CleanedMonth(mon) ==
    CASE mon = "Aul!" -> "Aug"
      [] mon = "Mav" -> "May"
      [] OTHER -> mon

\* The first pattern takes every DD-\w{3,}-YYYY string and returns from
\* inside if (match); the cleaned string is only reached without a match.
parseBSEDate(date) ==
    IF IsWordMonth(date.mon) THEN LocalDate(date, date.mon)
    ELSE LocalDate(date, CleanedMonth(date.mon))

\* An unlockDate: null, or the ISO instant (day: the YYYYMMDD of its first
\* ten characters, minute: its time of day, in minutes).
NullDate == [null |-> TRUE, day |-> 0, minute |-> 0]

MINUTES_PER_DAY == 1440

\* getDate() of new Date('YYYY-MM-DD'): the string is read as UTC midnight,
\* the getters and setDate work in local time.
LocalDay(day, tz) == (day * MINUTES_PER_DAY + tz) \div MINUTES_PER_DAY

\* Date.prototype.toISOString of the local midnight of day number `day`: the
\* instant in UTC, tz minutes earlier.
ToISOString(day, tz) ==
    LET utc == day * MINUTES_PER_DAY - tz
        utcDay == utc \div MINUTES_PER_DAY
    IN [null |-> FALSE, day |-> formatDateForNotice(utcDay),
        minute |-> utc % MINUTES_PER_DAY]

\* entry.unlockDate.substring(0, 10)
DateKey(unlockDate) == unlockDate.day

\* ------------------------------------------------------ unlock aggregator

\* A LockInEntry: { shares, isLocked, unlockDate }.
Entry(shares, isLocked, unlockDate) ==
    [shares |-> shares, isLocked |-> isLocked, unlockDate |-> unlockDate]

RECURSIVE NotLockedShares(_)
NotLockedShares(entries) ==
    IF entries = <<>> THEN 0
    ELSE (IF ~Head(entries).isLocked THEN Head(entries).shares ELSE 0)
         + NotLockedShares(Tail(entries))

\* unlockMap.set(dateKey, (unlockMap.get(dateKey) || 0) + entry.shares)
Accumulate_Overwrite(sofar, shares) == shares

Accumulate(sofar, shares) == sofar + shares

\* The for loop of buildUnlockEvents over the locked entries that have a date.
RECURSIVE UnlockMap(_, _)
UnlockMap(entries, map) ==
    IF entries = <<>> THEN map
    ELSE LET e == Head(entries)
             key == DateKey(e.unlockDate)
             sofar == IF key \in DOMAIN map THEN map[key] ELSE 0
         IN IF ~e.isLocked \/ e.unlockDate.null
            THEN UnlockMap(Tail(entries), map)
            ELSE UnlockMap(Tail(entries),
                           [k \in DOMAIN map \cup {key} |->
                               IF k = key THEN Accumulate(sofar, e.shares) ELSE map[k]])

\* .sort((a, b) => a[0].localeCompare(b[0])) on YYYY-MM-DD keys.
RECURSIVE SortByDate_Reversed(_)
SortByDate_Reversed(keys) ==
    IF keys = {} THEN <<>>
    ELSE LET last == CHOOSE k \in keys : \A other \in keys : other <= k
         IN <<last>> \o SortByDate_Reversed(keys \ {last})

RECURSIVE SortByDate(_)
SortByDate(keys) ==
    IF keys = {} THEN <<>>
    ELSE LET first == CHOOSE k \in keys : \A other \in keys : k <= other
         IN <<first>> \o SortByDate(keys \ {first})

\* Math.round((shares / totalShares) * 1000), the percentage in tenths of a
\* percent (the source divides it by 10); 0 when totalShares is 0.  Computed
\* by long division, shares <= totalShares.
Percentage_Percent(shares, totalShares) ==
    IF totalShares > 0
    THEN LET q0 == shares \div totalShares
             r0 == shares % totalShares
             q1 == (10 * r0) \div totalShares
             r1 == (10 * r0) % totalShares
             q2 == (10 * r1) \div totalShares
             r2 == (10 * r1) % totalShares
             whole == 100 * q0 + 10 * q1 + q2
         IN IF 2 * r2 >= totalShares THEN whole + 1 ELSE whole
    ELSE 0

Percentage(shares, totalShares) ==
    IF totalShares > 0
    THEN LET q0 == shares \div totalShares
             r0 == shares % totalShares
             q1 == (10 * r0) \div totalShares
             r1 == (10 * r0) % totalShares
             q2 == (10 * r1) \div totalShares
             r2 == (10 * r1) % totalShares
             q3 == (10 * r2) \div totalShares
             r3 == (10 * r2) % totalShares
             whole == 1000 * q0 + 100 * q1 + 10 * q2 + q3
         IN IF 2 * r3 >= totalShares THEN whole + 1 ELSE whole
    ELSE 0

\* An UnlockEvent; the date of the null-date event is 0 and only it carries
\* a label.
NOT_LOCKED_LABEL == "Not under lock-in"

DatedEvent(key, shares, totalShares) ==
    [date |-> key, shares |-> shares, percentage |-> Percentage(shares, totalShares),
     label |-> "none"]

NotLockedEvent(shares, totalShares) ==
    [date |-> 0, shares |-> shares, percentage |-> Percentage(shares, totalShares),
     label |-> NOT_LOCKED_LABEL]

\* unlockEvents.unshift(...)
Unshift_Push(events, e) == Append(events, e)

Unshift(events, e) == <<e>> \o events

buildUnlockEvents(lockInEntries, totalShares) ==
    LET map == UnlockMap(lockInEntries, <<>>)
        keys == SortByDate(DOMAIN map)
        dated == [i \in 1..Len(keys) |-> DatedEvent(keys[i], map[keys[i]], totalShares)]
        notLockedShares == NotLockedShares(lockInEntries)
    IN [totalShares |-> totalShares,
        unlockEvents |-> IF notLockedShares > 0
                         THEN Unshift(dated, NotLockedEvent(notLockedShares, totalShares))
                         ELSE dated]

\* ------------------------------------------------------- structured parser

\* if (shares <= 0) continue;   (parseNSEFormat, parseNSEFallback)
\* if (val > 0) nums.push(...)  (parseUniversalBSEFormat)
KeepShares_All(shares) == TRUE

KeepShares(shares) == shares > 0

\* The characters [\d,]+ can match at the start of a row match: a digit run,
\* or the year that ends a date.
SharesRun(tok) ==
    IF tok.k = "num" THEN tok.digits
    ELSE IF tok.k = "date" THEN Digits(tok.date.y) ELSE <<>>

\* lineRegex matches at token i: ([\d,]+)\s+[\d,]+\s+[\d,]+\s+(date|Free)
RowAt(toks, i) ==
    /\ i + 3 <= Len(toks)
    /\ toks[i].k \in {"num", "date"}
    /\ toks[i + 1].k = "num"
    /\ toks[i + 2].k = "num"
    /\ toks[i + 3].k \in {"date", "free"}

\* The entry of a row or segment whose lock-in column is lockInfo.
LockedUntil(shares, date, tz) ==
    LET unlockDate == parseBSEDate(date)
    IN Entry(shares, TRUE,
             IF unlockDate.ok THEN ToISOString(unlockDate.day, tz) ELSE NullDate)

RowEntry(shares, lockInfo, tz) ==
    IF lockInfo.k = "free" THEN Entry(shares, FALSE, NullDate)
    ELSE LockedUntil(shares, lockInfo.date, tz)

NoEntries == [entries |-> <<>>, total |-> 0]

\* What a parser hands to buildUnlockEvents, with the path that produced it.
Parsed(acc, path) == [entries |-> acc.entries, total |-> acc.total, path |-> path]

\* while ((match = lineRegex.exec(section)) !== null) { ... }
RECURSIVE ScanRows(_, _, _, _)
ScanRows(toks, i, acc, tz) ==
    IF i > Len(toks) THEN acc
    ELSE IF RowAt(toks, i)
         THEN LET shares == parseIndianNumber(SharesRun(toks[i]))
              IN IF ~KeepShares(shares) THEN ScanRows(toks, i + 4, acc, tz)
                 ELSE ScanRows(toks, i + 4,
                               [entries |-> Append(acc.entries,
                                                   RowEntry(shares, toks[i + 3], tz)),
                                total |-> acc.total + shares], tz)
         ELSE ScanRows(toks, i + 1, acc, tz)

\* Index of the first token of a kind, 0 when there is none (search gives -1).
FirstIndex(toks, kinds) ==
    IF \E i \in 1..Len(toks) : toks[i].k \in kinds
    THEN CHOOSE i \in 1..Len(toks) :
            /\ toks[i].k \in kinds
            /\ \A j \in 1..(i - 1) : toks[j].k \notin kinds
    ELSE 0

Max(a, b) == IF a > b THEN a ELSE b

\* text.substring(Math.max(annexureStart, lockInStart, 0))
Section(toks) ==
    LET startPos == Max(Max(FirstIndex(toks, {"annexure"}), FirstIndex(toks, {"lockin"})), 1)
    IN SubSeq(toks, startPos, Len(toks))

\* seg.match(/[\d,]{3,}/g)[0]: the first run of three or more digits, which
\* can be the year of a date; <<>> when there is none.
MIN_RUN_DIGITS == 3

FirstRun(toks) ==
    LET at == { i \in 1..Len(toks) :
                  \/ toks[i].k = "num" /\ toks[i].len >= MIN_RUN_DIGITS
                  \/ toks[i].k = "date" }
    IN IF at = {} THEN <<>>
       ELSE SharesRun(toks[CHOOSE i \in at : \A j \in at : i <= j])

\* parseNSEFallback: the section, normalized before, has no newline left and
\* is one segment; it gives at most one more entry.
parseNSEFallback(toks, existingTotal, existingEntries, tz) ==
    LET nums == FirstRun(toks)
        dateAt == FirstIndex(toks, {"date"})
        isFree == FirstIndex(toks, {"free"}) > 0
        shares == parseIndianNumber(nums)
    IN IF nums # <<>> /\ (dateAt > 0 \/ isFree) /\ KeepShares(shares)
       THEN [entries |-> Append(existingEntries,
                                IF isFree THEN Entry(shares, FALSE, NullDate)
                                ELSE LockedUntil(shares, toks[dateAt].date, tz)),
             total |-> existingTotal + shares]
       ELSE [entries |-> existingEntries, total |-> existingTotal]

\* if (lockInEntries.length < 2) return parseNSEFallback(...)
MIN_ROWS == 2

parseNSEFormat(toks, tz) ==
    LET section == Section(toks)
        rows == ScanRows(section, 1, NoEntries, tz)
    IN IF Len(rows.entries) < MIN_ROWS
       THEN Parsed(parseNSEFallback(section, rows.total, rows.entries, tz), "fallback")
       ELSE Parsed(rows, "structured")

\* ---------------------------------------------------- reconciliation parser

TRIPLET_DIGITS == 8
AB_DIGITS == 2
AB_LOOKAHEAD == 3
PAIR_DIGITS == 5
B_LOOKAHEAD == 15
C_LOOKAHEAD == 10
MIN_GLUED_SHARES == 100
MIN_SHARES == 1000
DATE_WINDOW == 60
MIN_YEAR == 2000
PROXIMITY_RANGE == 1000
PROXIMITY_DIGITS == 10

\* The digit runs of the text whose dates are blanked out: value, raw digits,
\* character index and length.
RECURSIVE NumsFrom(_, _)
NumsFrom(toks, i) ==
    IF i > Len(toks) THEN <<>>
    ELSE (IF toks[i].k = "num" /\ KeepShares(ParseInt(toks[i].digits))
          THEN << [val |-> ParseInt(toks[i].digits), rawStr |-> toks[i].digits,
                   index |-> Offset(toks, i), strLength |-> toks[i].len] >>
          ELSE <<>>)
         \o NumsFrom(toks, i + 1)

\* if (X_str.length > 1 && X_str.startsWith('0')) continue;
NoLeadingZero(ds) == Len(ds) = 1 \/ ds[1] # 0

NoSplit == [found |-> FALSE, A |-> 0, B |-> 0, C |-> 0]

\* findMathTripletInString: the first pair of split points, in loop order,
\* with A = C - B + 1 and A > 100.
findMathTripletInString(str) ==
    LET len == Len(str)
        part(a, b) == SubSeq(str, a, b)
        ok == { p \in (1..(len - 2)) \X (2..(len - 1)) :
                  /\ p[1] < p[2]
                  /\ NoLeadingZero(part(1, p[1]))
                  /\ NoLeadingZero(part(p[1] + 1, p[2]))
                  /\ NoLeadingZero(part(p[2] + 1, len))
                  /\ ParseInt(part(1, p[1]))
                        = ParseInt(part(p[2] + 1, len)) - ParseInt(part(p[1] + 1, p[2])) + 1
                  /\ ParseInt(part(1, p[1])) > MIN_GLUED_SHARES }
        first == CHOOSE p \in ok :
                    \A q \in ok : p[1] < q[1] \/ (p[1] = q[1] /\ p[2] <= q[2])
    IN IF ok = {} THEN NoSplit
       ELSE [found |-> TRUE, A |-> ParseInt(part(1, first[1])),
             B |-> ParseInt(part(first[1] + 1, first[2])),
             C |-> ParseInt(part(first[2] + 1, len))]

\* findMathPairInString: is there a split B, C of str with A = C - B + 1?
findMathPairInString(str, A) ==
    \E i \in 1..(Len(str) - 1) :
       /\ NoLeadingZero(SubSeq(str, 1, i))
       /\ NoLeadingZero(SubSeq(str, i + 1, Len(str)))
       /\ A = ParseInt(SubSeq(str, i + 1, Len(str))) - ParseInt(SubSeq(str, 1, i)) + 1

\* findDateNear(text, startIndex, 120): the latest of the dates with a year
\* after 2000 in the 60 characters that follow, cut at the first newline
\* unless that newline is the very first character.
findDateNear(toks, startIndex, tz) ==
    LET newlines == { Offset(toks, i) - startIndex : i \in { j \in 1..Len(toks) :
                         /\ toks[j].k = "nl"
                         /\ Offset(toks, j) >= startIndex
                         /\ Offset(toks, j) < startIndex + DATE_WINDOW } }
        newlineIdx == IF newlines = {} THEN 0 - 1
                      ELSE CHOOSE n \in newlines : \A m \in newlines : n <= m
        chunkEnd == IF newlineIdx > 0 THEN startIndex + newlineIdx
                    ELSE startIndex + DATE_WINDOW
        days == { parseBSEDate(toks[i].date).day : i \in { j \in 1..Len(toks) :
                    /\ toks[j].k = "date"
                    /\ Offset(toks, j) >= startIndex
                    /\ EndOffset(toks, j) <= chunkEnd
                    /\ parseBSEDate(toks[j].date).ok
                    /\ parseBSEDate(toks[j].date).year > MIN_YEAR } }
    IN IF days = {} THEN NullDate
       ELSE ToISOString(CHOOSE d \in days : \A e \in days : e <= d, tz)

\* lockInEntries.push({ shares, isLocked: !!date, unlockDate: date })
Reconciled(shares, date) == Entry(shares, ~date.null, date)

\* Rule 1.5: A and B glued in nums[i], C in one of the next two runs; the
\* first (j, split) in loop order.
ABGluedAt(nums, i, used) ==
    LET str == nums[i].rawStr
        ok == { p \in ((i + 1)..Min(i + AB_LOOKAHEAD - 1, Len(nums))) \X (1..(Len(str) - 1)) :
                  /\ p[1] \notin used
                  /\ NoLeadingZero(SubSeq(str, 1, p[2]))
                  /\ NoLeadingZero(SubSeq(str, p[2] + 1, Len(str)))
                  /\ ParseInt(SubSeq(str, 1, p[2]))
                        = nums[p[1]].val - ParseInt(SubSeq(str, p[2] + 1, Len(str))) + 1
                  /\ ParseInt(SubSeq(str, 1, p[2])) > MIN_GLUED_SHARES }
        first == CHOOSE p \in ok :
                    \A q \in ok : p[1] < q[1] \/ (p[1] = q[1] /\ p[2] <= q[2])
    IN IF Len(str) < AB_DIGITS \/ ok = {} THEN [found |-> FALSE, j |-> 0, A |-> 0]
       ELSE [found |-> TRUE, j |-> first[1], A |-> ParseInt(SubSeq(str, 1, first[2]))]

\* Rule 2 at j: a glued pair B, C; or the implicit From = 1; or the first C
\* among the following runs.  last: the run after which the date is looked
\* for; runs: the runs consumed besides i.
PairAt(nums, i, j) ==
    Len(nums[j].rawStr) >= PAIR_DIGITS /\ findMathPairInString(nums[j].rawStr, nums[i].val)

ImplicitFromAt(nums, i, j) ==
    nums[i].val = nums[j].val \/ nums[i].val = nums[j].val - 1

ClosingRuns(nums, i, j, used) ==
    { k \in (j + 1)..Min(j + C_LOOKAHEAD - 1, Len(nums)) :
        k \notin used /\ nums[i].val = nums[k].val - nums[j].val + 1 }

TripletAt_Isolated(nums, i, used) == [found |-> TRUE, last |-> i, runs |-> {}]

TripletAt(nums, i, used) ==
    LET ok == { j \in (i + 1)..Min(i + B_LOOKAHEAD - 1, Len(nums)) :
                  /\ j \notin used
                  /\ \/ PairAt(nums, i, j)
                     \/ ImplicitFromAt(nums, i, j)
                     \/ ClosingRuns(nums, i, j, used) # {} }
        j == CHOOSE x \in ok : \A y \in ok : x <= y
        ks == ClosingRuns(nums, i, j, used)
        k == CHOOSE x \in ks : \A y \in ks : x <= y
    IN IF ok = {} THEN [found |-> FALSE, last |-> 0, runs |-> {}]
       ELSE IF PairAt(nums, i, j) \/ ImplicitFromAt(nums, i, j)
            THEN [found |-> TRUE, last |-> j, runs |-> {j}]
            ELSE [found |-> TRUE, last |-> k, runs |-> {j, k}]

\* The main loop of parseUniversalBSEFormat from run i on.
RECURSIVE Reconcile(_, _, _, _, _, _)
Reconcile(toks, nums, i, used, acc, tz) ==
    IF i > Len(nums) THEN acc
    ELSE IF i \in used THEN Reconcile(toks, nums, i + 1, used, acc, tz)
    ELSE
      LET n == nums[i]
          dateAfter(j) == findDateNear(toks, nums[j].index + nums[j].strLength, tz)
          emit(shares, date) == [entries |-> Append(acc.entries, Reconciled(shares, date)),
                                 total |-> acc.total + shares]
          glued == IF Len(n.rawStr) >= TRIPLET_DIGITS
                   THEN findMathTripletInString(n.rawStr) ELSE NoSplit
          ab == ABGluedAt(nums, i, used)
          tr == TripletAt(nums, i, used)
      IN IF glued.found
         THEN Reconcile(toks, nums, i + 1, used \cup {i}, emit(glued.A, dateAfter(i)), tz)
         ELSE IF ab.found
         THEN Reconcile(toks, nums, i + 1, used \cup {i, ab.j}, emit(ab.A, dateAfter(ab.j)), tz)
         ELSE IF n.val < MIN_SHARES \/ ~tr.found
         THEN Reconcile(toks, nums, i + 1, used, acc, tz)
         ELSE Reconcile(toks, nums, i + 1, used \cup {i} \cup tr.runs,
                        emit(n.val, dateAfter(tr.last)), tz)

\* Proximity fallback: for the date at token d, the value of the nearest run
\* before it (value >= 1000, fewer than 10 digits, less than 1000 characters
\* away); 0 when there is none.
ClosestNum(toks, nums, d) ==
    LET diff(x) == Offset(toks, d) - (nums[x].index + nums[x].strLength)
        ok == { x \in 1..Len(nums) :
                  /\ nums[x].val >= MIN_SHARES
                  /\ Len(nums[x].rawStr) < PROXIMITY_DIGITS
                  /\ diff(x) > 0
                  /\ diff(x) < PROXIMITY_RANGE }
    IN IF ok = {} THEN 0
       ELSE nums[CHOOSE x \in ok : \A y \in ok : diff(x) <= diff(y)].val

RECURSIVE Proximity(_, _, _, _, _)
Proximity(toks, nums, d, acc, tz) ==
    IF d > Len(toks) THEN acc
    ELSE LET parsedDate == parseBSEDate(toks[d].date)
             closestNum == ClosestNum(toks, nums, d)
         IN IF toks[d].k = "date" /\ parsedDate.ok /\ closestNum > 0
            THEN Proximity(toks, nums, d + 1,
                           [entries |-> Append(acc.entries,
                                               Entry(closestNum, TRUE,
                                                     ToISOString(parsedDate.day, tz))),
                            total |-> acc.total + closestNum], tz)
            ELSE Proximity(toks, nums, d + 1, acc, tz)

\* if (lockInEntries.length === 0) { proximity fallback }
parseUniversalBSEFormat(toks, tz) ==
    LET nums == NumsFrom(toks, 1)
        math == Reconcile(toks, nums, 1, {}, NoEntries, tz)
    IN IF math.entries = <<>>
       THEN Parsed(Proximity(toks, nums, 1, NoEntries, tz), "proximity")
       ELSE Parsed(math, "reconcile")

\* parseLockInData after pdf(pdfBuffer): the structured parser on the
\* normalized text when it holds "Lock in up to", the reconciliation parser
\* on the text otherwise.
parseLockInData(toks, tz) ==
    IF FirstIndex(toks, {"lockin"}) > 0
    THEN parseNSEFormat(Normalize(toks), tz)
    ELSE parseUniversalBSEFormat(toks, tz)

\* ------------------------------------------------------ notice page links

\* The text of a link (trimmed, lower case) and its href are sequences of
\* characters.
STR_ANNEXURE == <<"a", "n", "n", "e", "x", "u", "r", "e">>
STR_ANNEX == <<"a", "n", "n", "e", "x">>
STR_II == <<"i", "i">>
STR_BLANK_2 == <<" ", "2">>
STR_ANNEXURE_DASH_I == <<"a", "n", "n", "e", "x", "u", "r", "e", "-", "i">>
STR_ANNEXURE_SPACED_I == <<"a", "n", "n", "e", "x", "u", "r", "e", " ", "-", " ", "i">>
STR_DOT_PDF == <<".", "p", "d", "f">>
STR_ANNEXURE_UNDERSCORE == <<"a", "n", "n", "e", "x", "u", "r", "e", "_">>
STR_ANNEXURE_I == <<"a", "n", "n", "e", "x", "u", "r", "e", " ", "i">>
STR_ANNEXURE_1 == <<"a", "n", "n", "e", "x", "u", "r", "e", " ", "1">>
STR_DOWNLOAD_ATTACH == <<"D", "o", "w", "n", "l", "o", "a", "d", "A", "t", "t", "a", "c", "h">>

\* Link texts and hrefs of notice pages.
LinkTexts ==
    { <<"a", "n", "n", "e", "x", "u", "r", "e", "-", "i">>,
      <<"a", "n", "n", "e", "x", "u", "r", "e", "-", "i", "i">>,
      <<"a", "n", "n", "e", "x", "u", "r", "e", ".", "p", "d", "f">>,
      <<"a", "n", "n", "e", "x", "u", "r", "e", " ", "i">>,
      <<"a", "n", "n", "e", "x">>,
      <<"a", "n", "n", "e", "x", "u", "r", "e", "-", "2", ".", "p", "d", "f">>,
      <<"a", "n", "n", "e", "x", " ", "i", "i">>,
      <<"n", "o", "t", "i", "c", "e">> }
LinkHrefs ==
    { <<"a", ".", "p", "d", "f">>,
      <<"D", "o", "w", "n", "l", "o", "a", "d", "A", "t", "t", "a", "c", "h", ".", "a", "s", "p", "x">>,
      <<"b", ".", "h", "t", "m", "l">>,
      <<>> }

Anchors == [text : LinkTexts, href : LinkHrefs]

\* if (text.includes('annexure') && (text.includes('ii') || text.includes(' 2'))) return;
IsAnnexureII(a) ==
    Includes(a.text, STR_ANNEXURE) /\ (Includes(a.text, STR_II) \/ Includes(a.text, STR_BLANK_2))

\* The four passes of parseNoticeHTML, in priority order.
ServerRule(pass, a) ==
    CASE pass = 1 -> \/ Includes(a.text, STR_ANNEXURE_DASH_I)
                     \/ Includes(a.text, STR_ANNEXURE_SPACED_I)
      [] pass = 2 -> /\ Includes(a.text, STR_ANNEXURE)
                     /\ Includes(a.text, STR_DOT_PDF)
                     /\ ~Includes(a.text, STR_ANNEXURE_UNDERSCORE)
      [] pass = 3 -> /\ Includes(a.text, STR_ANNEXURE_I) \/ Includes(a.text, STR_ANNEXURE_1)
                     /\ Includes(a.href, STR_DOT_PDF)
      [] OTHER    -> /\ Includes(a.text, STR_ANNEXURE) \/ Includes(a.text, STR_ANNEX)
                     /\ Includes(a.href, STR_DOWNLOAD_ATTACH)

\* The if / else-if chain of clientFetchBSENotice.
ClientRule(a) ==
    \/ Includes(a.text, STR_ANNEXURE_DASH_I) \/ Includes(a.text, STR_ANNEXURE_SPACED_I)
    \/ /\ Includes(a.text, STR_ANNEXURE)
       /\ Includes(a.text, STR_DOT_PDF)
       /\ ~Includes(a.text, STR_ANNEXURE_UNDERSCORE)
    \/ Includes(a.text, STR_ANNEXURE_I) \/ Includes(a.text, STR_ANNEXURE_1)
    \/ /\ Includes(a.text, STR_ANNEXURE) \/ Includes(a.text, STR_ANNEX)
       /\ Includes(a.href, STR_DOWNLOAD_ATTACH)

\* One each() loop: if (!annexureUrl) annexureUrl = href, for every link the
\* rule accepts; an empty href leaves annexureUrl falsy.
RECURSIVE FirstHref(_, _, _)
FirstHref(as, pass, annexureUrl) ==
    IF as = <<>> THEN annexureUrl
    ELSE LET a == Head(as)
             accepted == ~IsAnnexureII(a)
                         /\ (IF pass = 0 THEN ClientRule(a) ELSE ServerRule(pass, a))
         IN FirstHref(Tail(as), pass,
                      IF accepted /\ annexureUrl = <<>> THEN a.href ELSE annexureUrl)

SERVER_PASSES == 4

\* parseNoticeHTML: a pass runs only if (!annexureUrl) after the earlier ones.
RECURSIVE ServerAnnexureUrl(_, _)
ServerAnnexureUrl(as, pass) ==
    IF pass > SERVER_PASSES THEN <<>>
    ELSE LET url == FirstHref(as, pass, <<>>)
         IN IF url # <<>> THEN url ELSE ServerAnnexureUrl(as, pass + 1)

\* clientFetchBSENotice: one loop over the links.
ClientAnnexureUrl(as) == FirstHref(as, 0, <<>>)

NoPicks == [server |-> "pending", serverUrl |-> <<>>, client |-> "pending", clientUrl |-> <<>>]

\* ------------------------------------------------------------ documents

\* Rows of a structured (NSE) document, below its "Lock in up to" header.
StructuredRows ==
    { << Num(Digits(8723813)), Num(<<1>>), Num(Digits(8723813)), DateTok(20, "Sep", 2025) >>,
      << Num(Digits(3242)), Num(Digits(17447641)), Num(Digits(17450882)), FreeTok >>,
      << Num(Digits(2000)), Num(<<1>>), Num(Digits(2000)), DateTok(20, "Xyz", 2025) >>,
      << Num(<<0>>), Num(<<1>>), Num(<<1>>), FreeTok >>,
      << Num(Digits(1000)), Num(Digits(2001)), Num(Digits(3000)), DateTok(20, "Sep", 2025) >>,
      << Num(Digits(700)), DateTok(15, "Jan", 2026) >>,
      << AnnexureTok >> }

\* Rows of a scraped (BSE) document: separate, glued and lost range numbers,
\* with and without a date in reach.
ReconcileRows ==
    { << Num(Digits(5000)), Num(<<1>>), Num(Digits(5000)), DateTok(15, "Jan", 2026) >>,
      << Num(Digits(3000)), Num(Digits(5001)), Num(Digits(8000)) >>,
      << Num(Digits(500015000)), DateTok(20, "Sep", 2025) >>,
      << Num(Digits(500000)), Num(Digits(1500000)), DateTok(15, "Jan", 2026) >>,
      << Num(Digits(4000)), Num(Digits(4001)), DateTok(10, "Jan", 1999) >>,
      << Num(Digits(1500000)), DateTok(15, "Jan", 2026) >>,
      << Num(Digits(50001)), Num(Digits(5000)), Word(60), DateTok(15, "Jan", 2026) >>,
      << Num(Digits(250)), DateTok(20, "Sep", 2025) >>,
      << Num(Digits(5000)), Num(Digits(5000)), Word(60), Num(Digits(9999)),
         DateTok(15, "Jan", 2026) >> }

\* Sequences of at most n elements of S.
RECURSIVE SeqsUpTo(_, _)
SeqsUpTo(S, n) ==
    IF n = 0 THEN { <<>> }
    ELSE LET shorter == SeqsUpTo(S, n - 1)
         IN shorter \cup { Append(s, x) : s \in shorter, x \in S }

\* The text of rows, one newline between two rows.
RECURSIVE JoinRows(_)
JoinRows(rows) ==
    IF rows = <<>> THEN <<>>
    ELSE IF Len(rows) = 1 THEN rows[1]
         ELSE rows[1] \o <<NL>> \o JoinRows(Tail(rows))

Documents ==
    { JoinRows(<< <<LockInTok>> >> \o rows) : rows \in SeqsUpTo(StructuredRows, MaxRows) }
    \cup { JoinRows(rows) : rows \in SeqsUpTo(ReconcileRows, MaxRows) }

\* Offsets of the local time zone from UTC, in minutes: UTC, Asia/Kolkata,
\* America/New_York (winter).
TimeZones == {0, 330, 0 - 300}

\* Entries the aggregator can be given.
EntryDates ==
    { NullDate,
      [null |-> FALSE, day |-> 20250920, minute |-> 0],
      [null |-> FALSE, day |-> 20260114, minute |-> 1110],
      [null |-> FALSE, day |-> 20260114, minute |-> 0] }

EntryShares == {1, 2}

LockInEntries == [shares : EntryShares, isLocked : BOOLEAN, unlockDate : EntryDates]

RECURSIVE SumShares(_)
SumShares(entries) ==
    IF entries = <<>> THEN 0 ELSE Head(entries).shares + SumShares(Tail(entries))

NoParse == [entries |-> <<>>, total |-> 0, path |-> "none"]

\* --------------------------------------------------------- company matching

\* The characters /[^A-Z0-9 ]/g leaves in place.
KEPT_CHARS ==
    { "A", "B", "C", "D", "E", "F", "G", "H", "I", "J", "K", "L", "M", "N", "O", "P", "Q",
      "R", "S", "T", "U", "V", "W", "X", "Y", "Z", "0", "1", "2", "3", "4", "5", "6", "7",
      "8", "9", " " }

IsKeptChar(c) == c \in KEPT_CHARS

\* .replace(/[^A-Z0-9 ]/g, '')
StripOthers(s) == SelectSeq(s, IsKeptChar)

\* .trim()
RECURSIVE Trim(_)
Trim(s) ==
    IF s = <<>> THEN s
    ELSE IF Head(s) = " " THEN Trim(Tail(s))
         ELSE IF s[Len(s)] = " " THEN Trim(SubSeq(s, 1, Len(s) - 1))
              ELSE s

StartsWith(s, prefix) == Len(s) >= Len(prefix) /\ SubSeq(s, 1, Len(prefix)) = prefix

\* The alternatives of (LTD|LIMITED|INDIA|PRIVATE|PVT), each after a blank.
LEGAL_WORDS ==
    { <<" ", "L", "T", "D">>,
      <<" ", "L", "I", "M", "I", "T", "E", "D">>,
      <<" ", "I", "N", "D", "I", "A">>,
      <<" ", "P", "R", "I", "V", "A", "T", "E">>,
      <<" ", "P", "V", "T">> }

\* Length of the match of / (LTD|LIMITED|INDIA|PRIVATE|PVT)\.?/ at the start
\* of s, 0 if there is none.
LegalWordAt(s) ==
    IF \E w \in LEGAL_WORDS : StartsWith(s, w)
    THEN LET w == CHOOSE x \in LEGAL_WORDS : StartsWith(s, x)
         IN IF Len(s) > Len(w) /\ s[Len(w) + 1] = "." THEN Len(w) + 1 ELSE Len(w)
    ELSE 0

\* findBSENotice: .replace(/ (LTD|LIMITED|INDIA|PRIVATE|PVT)\.?/g, '')
RECURSIVE RemoveLegalWords(_)
RemoveLegalWords(s) ==
    IF s = <<>> THEN s
    ELSE IF LegalWordAt(s) > 0
         THEN RemoveLegalWords(SubSeq(s, LegalWordAt(s) + 1, Len(s)))
         ELSE << Head(s) >> \o RemoveLegalWords(Tail(s))

\* findNSECircular: .replace(/ (...)\.?$/g, '').replace(/ (...)\.? /g, ' ')
RECURSIVE RemoveLegalSuffix(_)
RemoveLegalSuffix(s) ==
    IF s = <<>> THEN s
    ELSE IF LegalWordAt(s) = Len(s) THEN <<>>
         ELSE << Head(s) >> \o RemoveLegalSuffix(Tail(s))

RECURSIVE RemoveLegalInfix(_)
RemoveLegalInfix(s) ==
    IF s = <<>> THEN s
    ELSE LET n == LegalWordAt(s)
         IN IF n > 0 /\ Len(s) > n /\ s[n + 1] = " "
            THEN << " " >> \o RemoveLegalInfix(SubSeq(s, n + 2, Len(s)))
            ELSE << Head(s) >> \o RemoveLegalInfix(Tail(s))

BSENormalizedSearch(companyName) ==
    Trim(StripOthers(RemoveLegalWords(ToUpperCase(companyName))))

NSENormalizedSearch(companyName) ==
    Trim(StripOthers(RemoveLegalInfix(RemoveLegalSuffix(ToUpperCase(companyName)))))

\* .split(/\s+/): the stretches between blanks (one empty string for '').
RECURSIVE SplitBlanks(_, _)
SplitBlanks(s, word) ==
    IF s = <<>> THEN << word >>
    ELSE IF Head(s) = " "
         THEN (IF Tail(s) # <<>> /\ Head(Tail(s)) = " "
               THEN SplitBlanks(Tail(s), word)
               ELSE << word >> \o SplitBlanks(Tail(s), <<>>))
         ELSE SplitBlanks(Tail(s), Append(word, Head(s)))

MIN_WORD_LENGTH == 3

IsSignificant(w) == Len(w) >= MIN_WORD_LENGTH

\* normalizedSearch.split(/\s+/).filter(w => w.length >= 3)
SearchWords(normalizedSearch) == SelectSeq(SplitBlanks(normalizedSearch, <<>>), IsSignificant)

\* searchWords.filter(w => normalizedText.includes(w)).length
MatchCount(searchWords, normalizedText) ==
    Cardinality({ i \in 1..Len(searchWords) : Includes(normalizedText, searchWords[i]) })

MATCH_THRESHOLD == 2

\* matchCount >= Math.min(searchWords.length, 2)
FuzzyMatch(searchWords, normalizedText) ==
    MatchCount(searchWords, normalizedText) >= Min(Len(searchWords), MATCH_THRESHOLD)

STR_LISTING == <<"L", "I", "S", "T", "I", "N", "G">>
STR_LISTING_OF_EQUITY ==
    <<"L", "I", "S", "T", "I", "N", "G", " ", "O", "F", " ", "E", "Q", "U", "I", "T", "Y", " ", "S", "H", "A", "R", "E", "S">>
STR_LISTING_OF_THE_EQUITY ==
    <<"L", "I", "S", "T", "I", "N", "G", " ", "O", "F", " ", "T", "H", "E", " ", "E", "Q", "U", "I", "T", "Y", " ", "S", "H", "A", "R", "E", "S">>

\* findNSECircular: the filter on a circular of department CML with a zip.
NSECircularKept(sub, searchWords) ==
    LET upper == ToUpperCase(sub)
    IN /\ Includes(upper, STR_LISTING_OF_EQUITY)
       /\ FuzzyMatch(searchWords, StripOthers(upper))

\* searchBSESMENotices: a link is collected when its text holds LISTING, and
\* matches on the company words.
SMELinkMatches(linkText, searchWords) ==
    /\ Includes(ToUpperCase(linkText), STR_LISTING)
    /\ FuzzyMatch(searchWords, StripOthers(ToUpperCase(linkText)))

\* parseNoticeHTML: the checks before the link search; they are skipped
\* when normalizedSearch is the empty string.
NoticePagePasses(body, normalizedSearch) ==
    LET bodyText == ToUpperCase(body)
        isListing == \/ Includes(bodyText, STR_LISTING_OF_EQUITY)
                     \/ Includes(bodyText, STR_LISTING_OF_THE_EQUITY)
    IN normalizedSearch # <<>>
          => /\ isListing
             /\ Includes(StripOthers(bodyText), normalizedSearch)

\* Company names and the texts of candidates (circular subjects, link texts,
\* page bodies): a heading and the name as the candidate writes it.
MatchCompanies ==
    { <<"A", "c", "m", "e", " ", "P", "o", "w", "e", "r", " ", "L", "t", "d">>,
      <<"A", "c", "m", "e", " ", "L", "t", "d", ".">>,
      <<"A", "B", " ", "L", "t", "d">>,
      <<"A", "c", "m", "e", " ", "I", "n", "d", "i", "a", " ", "P", "o", "w", "e", "r", " ", "P", "v", "t", ".", " ", "L", "t", "d">> }

CandidateHeadings ==
    { <<>>,
      <<"L", "i", "s", "t", "i", "n", "g", " ", "o", "f", " ", "E", "q", "u", "i", "t", "y", " ", "S", "h", "a", "r", "e", "s", " ", "o", "f", " ">>,
      <<"L", "I", "S", "T", "I", "N", "G", " ", "O", "F", " ", "T", "H", "E", " ", "E", "Q", "U", "I", "T", "Y", " ", "S", "H", "A", "R", "E", "S", " ", "O", "F", " ">>,
      <<"L", "i", "s", "t", "i", "n", "g", " ", "o", "f", " ">> }

CandidateNames ==
    { <<"A", "c", "m", "e", " ", "P", "o", "w", "e", "r", " ", "L", "i", "m", "i", "t", "e", "d">>,
      <<"P", "o", "w", "e", "r", " ", "A", "c", "m", "e">>,
      <<"A", "c", "m", "e", " ", "S", "o", "l", "a", "r", " ", "P", "o", "w", "e", "r">>,
      <<"A", "c", "m", "e", "-", "P", "o", "w", "e", "r">>,
      <<"S", "o", "l", "a", "r", " ", "G", "r", "i", "d">>,
      <<"A", "c", "m", "e">> }

Candidates == { h \o n : h \in CandidateHeadings, n \in CandidateNames }

NoVerdict == [nse |-> "pending", sme |-> "pending", notice |-> "pending", filter |-> <<>>]

\* ------------------------------------------------------------ record store

\* normalizeKey on the company names of the model: lower case, legal words
\* and everything but letters and digits removed.
normalizeKey(name) ==
    CASE name = "Acme Ltd" -> "acme"
      [] name = "Acme" -> "acme"
      [] name = "Zen Pvt. Ltd" -> "zen"
      [] OTHER -> name

HasKey(companies, key) ==
    \E i \in 1..Len(companies) : normalizeKey(companies[i].companyName) = key

KeyIndex(companies, key) ==
    CHOOSE i \in 1..Len(companies) : normalizeKey(companies[i].companyName) = key

\* map.set(key, value): a key that is there keeps its place.
MapSet(values, key, value) ==
    IF HasKey(values, key) THEN [values EXCEPT ![KeyIndex(values, key)] = value]
    ELSE Append(values, value)

\* for (const company of existing) map.set(key, { ...company })
RECURSIVE MapOfExisting(_, _)
MapOfExisting(existing, values) ==
    IF existing = <<>> THEN values
    ELSE MapOfExisting(Tail(existing),
                       MapSet(values, normalizeKey(Head(existing).companyName), Head(existing)))

\* The fields of a company that is there are overwritten by the incoming
\* ones that are truthy; its name stays.
Updated(existing, company) ==
    [existing EXCEPT !.exchange = IF company.exchange # "" THEN company.exchange ELSE @]

RECURSIVE MergeIncoming(_, _)
MergeIncoming(incoming, values) ==
    IF incoming = <<>> THEN values
    ELSE LET company == Head(incoming)
             key == normalizeKey(company.companyName)
         IN MergeIncoming(Tail(incoming),
               MapSet(values, key,
                      IF HasKey(values, key)
                      THEN Updated(values[KeyIndex(values, key)], company)
                      ELSE company))

mergeCompanies(existing, incoming) == MergeIncoming(incoming, MapOfExisting(existing, <<>>))

\* The filter of the refresh handler: the first item of every companyName.
RECURSIVE DedupByName(_, _)
DedupByName(items, kept) ==
    IF items = <<>> THEN kept
    ELSE IF \E i \in 1..Len(kept) : kept[i].companyName = Head(items).companyName
         THEN DedupByName(Tail(items), kept)
         ELSE DedupByName(Tail(items), Append(kept, Head(items)))

StoredCompanies ==
    [companyName : {"Acme Ltd", "Acme", "Zen Pvt. Ltd"}, exchange : {"", "NSE"}]

CompanyLists == SeqsUpTo(StoredCompanies, MaxCompanies)

\* -------------------------------------------------------------------- state

VARIABLES
    req,            \* the request: companyName, exchange, listingDateISO
    pc,             \* where getUnlockPercentages is suspended
    result,         \* what getUnlockPercentages returned (Pending before)
    nseStage,       \* "pending", "running", "finished"
    nseEvents,      \* unlock events of the schedule the NSE stage extracted
    nseCircular,    \* what findNSECircular returned
    issued,         \* the kinds of network request issued so far
    smeNoticeId,    \* searchBSESMENotices: the noticeId of the matching link
    bseNotice,      \* what findBSENotice returned
    dates,          \* findBSENotice: the deduplicated datesToScan
    dateIdx,        \* findBSENotice: position of the for-of loop
    start,          \* scanNoticesOnDate: start of the current batch
    probes,         \* checkNotice calls of the batch: noticeId -> probe
    pdfFetch,       \* the downloadBSEPDF call
    sessRet,        \* where the attempt continues after getBSESession
    now,            \* Date.now(), in minutes
    bseCookies,     \* module-level session cookies ("null" before any visit)
    bseCookieTime,  \* module-level time of the session
    spc,            \* per caller of getBSESession: "idle" or "wait"
    snow,           \* per caller: the `now` its call captured
    lastVisit,      \* time the last homepage request was issued (-1: never)
    text,           \* parseLockInData: the text pdf-parse gives for the document
    tzOffset,       \* minutes the process's local time is ahead of UTC
    xpc,            \* where the extraction stands
    parsed,         \* lockInEntries and totalShares of the parser that ran
    schedule,       \* what buildUnlockEvents returned
    links,          \* the <a> elements of a notice page, in document order
    picks,          \* the annexure link the server and the client selected
    company,        \* the company name a candidate is matched against
    candidate,      \* text of a circular subject, a notice link or a notice page
    verdict,        \* what each of the three filters made of the candidate
    token,          \* the date string given to parseBSEDate
    parsedDate,     \* what parseBSEDate returned for it (Pending before)
    store,          \* the companies of the record store (db.json), in order
    refresh,        \* GET /api/unlock-data?refresh=true: position and the db it read
    imported,       \* POST /api/import-data: whether it ran, and the companies it sent
    probed          \* the noticeIds checkNotice was called with, in call order

vars ==
    << req, pc, result, nseStage, nseEvents, nseCircular, issued, smeNoticeId,
       bseNotice, dates, dateIdx, start, probes, pdfFetch, sessRet, now,
       bseCookies, bseCookieTime, spc, snow, lastVisit,
       text, tzOffset, xpc, parsed, schedule, links, picks,
       company, candidate, verdict, token, parsedDate, store, refresh, imported, probed >>

dateVars == << token, parsedDate >>

storeVars == << store, refresh, imported >>

auxVars == << company, candidate, verdict, dateVars, storeVars, probed >>

extractVars == << text, tzOffset, xpc, parsed, schedule, links, picks, auxVars >>

attemptVars ==
    << req, pc, result, nseStage, nseEvents, nseCircular, issued, smeNoticeId,
       bseNotice, dates, dateIdx, start, probes, pdfFetch, sessRet >>

scanVars == << dates, dateIdx, start, probes >>
sessionVars == << now, bseCookies, bseCookieTime, spc, snow, lastVisit >>
nseVars == << nseStage, nseEvents, nseCircular >>

\* No extraction, aggregation or link selection is going on.
IdleRefresh == [rpc |-> "idle", db |-> <<>>, newData |-> <<>>]

NotImported == [done |-> FALSE, during |-> "none", companies |-> <<>>]

InitAuxVars ==
    /\ company = <<>>
    /\ candidate = <<>>
    /\ verdict = NoVerdict
    /\ token = NoDateText
    /\ parsedDate = Pending
    /\ store = <<>>
    /\ refresh = IdleRefresh
    /\ imported = NotImported
    /\ probed = <<>>

InitExtractVars ==
    /\ text = <<>>
    /\ xpc = "idle"
    /\ parsed = NoParse
    /\ schedule = EmptySchedule
    /\ links = <<>>
    /\ picks = NoPicks
    /\ InitAuxVars

Callers == 1..NumCallers

\* The caller slot of the resolution attempt.
Attempt == 1

Requests ==
    [companyName : CompanyNames, exchange : ExchangeHints, listingDateISO : ListingDates]

\* Session caches an earlier attempt can have left behind, with the time of
\* the present attempt.
InitialSessions ==
    { [cookies |-> "null", time |-> 0, now |-> 0, lastVisit |-> 0 - 1],
      [cookies |-> "sid=1", time |-> 0, now |-> 5, lastVisit |-> 0],
      [cookies |-> "sid=1", time |-> 0, now |-> 10, lastVisit |-> 0] }

InitAttemptVars ==
    /\ result = Pending
    /\ nseStage = "pending"
    /\ nseEvents = 0
    /\ nseCircular = NoCircular
    /\ issued = {}
    /\ smeNoticeId = NoId
    /\ bseNotice = NoNotice
    /\ dates = <<>>
    /\ dateIdx = 0
    /\ start = 0
    /\ probes = <<>>
    /\ pdfFetch = NoFetch
    /\ sessRet = "none"

Init ==
    /\ req \in Requests
    /\ pc = "start"
    /\ InitAttemptVars
    /\ \E s \in InitialSessions :
          /\ now = s.now
          /\ bseCookies = s.cookies
          /\ bseCookieTime = s.time
          /\ lastVisit = s.lastVisit
    /\ spc = [c \in Callers |-> "idle"]
    /\ snow = [c \in Callers |-> 0]
    /\ InitExtractVars
    /\ tzOffset \in TimeZones

\* --------------------------------------------------------- getBSESession

InFlight == { c \in Callers : spc[c] = "wait" }

\* getBSESession up to its await: capture now, return the cached cookies when
\* they are fresh, otherwise request the homepage.
GetBSESession_Begin(c) ==
    /\ spc[c] = "idle"
    /\ snow' = [snow EXCEPT ![c] = now]
    /\ IF CacheFresh(bseCookies, bseCookieTime, now)
       THEN UNCHANGED << spc, lastVisit >>
       ELSE /\ spc' = [spc EXCEPT ![c] = "wait"]
            /\ lastVisit' = now
    /\ UNCHANGED << now, bseCookies, bseCookieTime >>

\* getBSESession after its await: store the harvested cookies ('' when there
\* are none or the request failed) with the captured now.
GetBSESession_End(c, outcome) ==
    /\ spc[c] = "wait"
    /\ bseCookies' = HarvestCookies(outcome)
    /\ bseCookieTime' = snow[c]
    /\ spc' = [spc EXCEPT ![c] = "idle"]
    /\ UNCHANGED << now, snow, lastVisit >>

\* ------------------------------------------------- getUnlockPercentages

\* if (!listingDateISO) return null;
Start ==
    /\ pc = "start"
    /\ IF req.listingDateISO = ""
       THEN /\ result' = NotFound
            /\ pc' = "done"
            /\ UNCHANGED nseStage
       ELSE /\ pc' = "nse_find"
            /\ nseStage' = "running"
            /\ UNCHANGED result
    /\ UNCHANGED << extractVars, req, nseEvents, nseCircular, issued, smeNoticeId, bseNotice,
                    scanVars, pdfFetch, sessRet, sessionVars >>

\* findNSECircular up to its await.
FindNSECircular ==
    /\ pc = "nse_find"
    /\ IF req.companyName = "" \/ req.listingDateISO = ""
          \/ ~ParseISODate(req.listingDateISO).valid
       THEN /\ nseCircular' = NoCircular
            /\ pc' = "nse_found"
            /\ UNCHANGED issued
       ELSE /\ issued' = issued \cup {"NSE_API"}
            /\ pc' = "nse_api_wait"
            /\ UNCHANGED nseCircular
    /\ UNCHANGED << extractVars, req, result, nseStage, nseEvents, smeNoticeId, bseNotice,
                    scanVars, pdfFetch, sessRet, sessionVars >>

NSEApiResponse ==
    /\ pc = "nse_api_wait"
    /\ \E resp \in NSEApiResponses : nseCircular' = FindNSECircularResult(resp)
    /\ pc' = "nse_found"
    /\ UNCHANGED << extractVars, req, result, nseStage, nseEvents, issued, smeNoticeId, bseNotice,
                    scanVars, pdfFetch, sessRet, sessionVars >>

\* if (nseCircular && nseCircular.zipUrl) downloadNSEAnnexure(...)
AfterFindNSE ==
    /\ pc = "nse_found"
    /\ IF nseCircular.found /\ nseCircular.zipUrl # "null"
       THEN /\ issued' = issued \cup {"NSE_ZIP"}
            /\ pc' = "nse_zip_wait"
            /\ UNCHANGED nseStage
       ELSE /\ pc' = "bse_find"
            /\ nseStage' = "finished"
            /\ UNCHANGED issued
    /\ UNCHANGED << extractVars, req, result, nseEvents, nseCircular, smeNoticeId, bseNotice,
                    scanVars, pdfFetch, sessRet, sessionVars >>

\* downloadNSEAnnexure: it throws (caught), finds no PDF in the ZIP, or
\* returns the PDF.
NSEZipResponse ==
    /\ pc = "nse_zip_wait"
    /\ \E outcome \in {"throw", "nopdf", "pdf"} :
          IF outcome = "pdf"
          THEN pc' = "nse_parse" /\ UNCHANGED nseStage
          ELSE pc' = "bse_find" /\ nseStage' = "finished"
    /\ UNCHANGED << extractVars, req, result, nseEvents, nseCircular, issued, smeNoticeId,
                    bseNotice, scanVars, pdfFetch, sessRet, sessionVars >>

\* parseLockInData on the NSE document, and the return with source NSE.
NSEParse ==
    /\ pc = "nse_parse"
    /\ \E p \in ParseOutcomes :
          /\ nseEvents' = IF p.raised THEN 0 ELSE Len(p.data.unlockEvents)
          /\ IF ~p.raised /\ NSEAccepts(p.data)
             THEN /\ result' = ScheduleResult(p.data, "NSE", nseCircular.displayNo, now)
                  /\ pc' = "done"
             ELSE /\ pc' = "bse_find"
                  /\ UNCHANGED result
    /\ nseStage' = "finished"
    /\ UNCHANGED << extractVars, req, nseCircular, issued, smeNoticeId, bseNotice, scanVars,
                    pdfFetch, sessRet, sessionVars >>

\* findBSENotice up to the request of searchBSESMENotices.
FindBSENotice ==
    /\ pc = "bse_find"
    /\ IF req.companyName = "" \/ req.listingDateISO = ""
       THEN /\ bseNotice' = NoNotice
            /\ pc' = "bse_done"
            /\ UNCHANGED issued
       ELSE /\ issued' = issued \cup {"SME_LIST"}
            /\ pc' = "sme_wait"
            /\ UNCHANGED bseNotice
    /\ UNCHANGED << extractVars, req, result, nseVars, smeNoticeId, scanVars, pdfFetch,
                    sessRet, sessionVars >>

\* searchBSESMENotices after its request: the first matching link with an
\* identifier, or nothing (also when the request threw).
SMEListResponse ==
    /\ pc = "sme_wait"
    /\ \E resp \in SMEResponses :
          LET hit == IF resp.kind = "ok" THEN FirstSMEHit(resp.links) ELSE NoId
          IN IF hit # NoId
             THEN smeNoticeId' = hit /\ pc' = "sme_session"
             ELSE pc' = "scan_session" /\ UNCHANGED smeNoticeId
    /\ UNCHANGED << extractVars, req, result, nseVars, issued, bseNotice, scanVars, pdfFetch,
                    sessRet, sessionVars >>

AfterSession(at) == IF at = "sme_session" THEN "sme_notice" ELSE "scan_dates"

\* await getBSESession() of searchBSESMENotices and of findBSENotice.
AttemptSession ==
    /\ pc \in {"sme_session", "scan_session"}
    /\ GetBSESession_Begin(Attempt)
    /\ IF CacheFresh(bseCookies, bseCookieTime, now)
       THEN pc' = AfterSession(pc) /\ UNCHANGED << issued, sessRet >>
       ELSE /\ pc' = "home_wait"
            /\ sessRet' = AfterSession(pc)
            /\ issued' = issued \cup {"BSE_HOME"}
    /\ UNCHANGED << extractVars, req, result, nseVars, smeNoticeId, bseNotice, scanVars, pdfFetch >>

AttemptSessionResponse ==
    /\ pc = "home_wait"
    /\ \E outcome \in HomepageOutcomes : GetBSESession_End(Attempt, outcome)
    /\ pc' = sessRet
    /\ UNCHANGED << extractVars, req, result, nseVars, issued, smeNoticeId, bseNotice, scanVars,
                    pdfFetch, sessRet >>

\* searchBSESMENotices: checkNotice(noticeId, '') up to its await.
SMECheckNotice ==
    /\ pc = "sme_notice"
    /\ probes' = [id \in {smeNoticeId} |-> PendingProbe]
    /\ probed' = Append(probed, smeNoticeId)
    /\ issued' = issued \cup {"NOTICE"}
    /\ pc' = "sme_notice_wait"
    /\ UNCHANGED << text, tzOffset, xpc, parsed, schedule, links, picks, company, candidate,
                    verdict, dateVars, storeVars, req, result, nseVars, smeNoticeId, bseNotice, dates, dateIdx,
                    start, pdfFetch, sessRet, sessionVars >>

\* One checkNotice call settles: the answer of the primary client arrives and
\* the rest of the call (curl runs synchronously) follows in the same step.
ProbeSettle ==
    /\ pc \in {"sme_notice_wait", "scan_wait"}
    /\ \E id \in DOMAIN probes, resp \in NoticeResponses :
       \E curl \in CurlHtmlRuns(resp) :
          /\ probes[id].st = "pending"
          /\ LET search == IF pc = "sme_notice_wait" THEN ""
                           ELSE NormalizedSearch(req.companyName)
                 done == CheckNotice(id, search, resp, curl)
             IN /\ probes' = [probes EXCEPT ![id] = done]
                /\ issued' = issued \cup
                      (IF \E i \in 1..Len(done.attempts) : done.attempts[i] = "curl"
                       THEN {"CURL_HTML"} ELSE {})
    /\ UNCHANGED << extractVars, req, pc, result, nseVars, smeNoticeId, bseNotice, dates, dateIdx,
                    start, pdfFetch, sessRet, sessionVars >>

PendingIds(ps) == { id \in DOMAIN ps : ps[id].st = "pending" }

\* await Promise.allSettled(batch.map(...)): every probe has settled.
BatchSettled_Any(ps) == \E id \in DOMAIN ps : ps[id].st # "pending"

BatchSettled(ps) == \A id \in DOMAIN ps : ps[id].st # "pending"

\* searchBSESMENotices after checkNotice: its result, or the partial
\* reference (a rejection is caught and gives null); then findBSENotice:
\* if (smeResult) return smeResult; otherwise the scan follows.
SMEFinish ==
    /\ pc = "sme_notice_wait"
    /\ BatchSettled(probes)
    /\ LET smeResult == IF probes[smeNoticeId].st = "rejected" THEN NoNotice
                        ELSE SMEResult(smeNoticeId, probes[smeNoticeId].value)
       IN IF smeResult.found
          THEN bseNotice' = smeResult /\ pc' = "bse_done"
          ELSE pc' = "scan_session" /\ UNCHANGED bseNotice
    /\ UNCHANGED << extractVars, req, result, nseVars, issued, smeNoticeId, scanVars, pdfFetch,
                    sessRet, sessionVars >>

\* findBSENotice after getBSESession: the date check and datesToScan.
ScanDates ==
    /\ pc = "scan_dates"
    /\ LET listDate == ParseISODate(req.listingDateISO)
       IN IF ~listDate.valid
          THEN /\ bseNotice' = NoNotice
               /\ pc' = "bse_done"
               /\ UNCHANGED << dates, dateIdx, start >>
          ELSE /\ dates' = DatesToScan(LocalDay(listDate.day, tzOffset))
               /\ dateIdx' = 1
               /\ start' = 1
               /\ pc' = "scan_issue"
               /\ UNCHANGED bseNotice
    /\ UNCHANGED << extractVars, req, result, nseVars, issued, smeNoticeId, probes, pdfFetch,
                    sessRet, sessionVars >>

\* The identifiers of the batch that starts at s on date d.
Batch(d, s) == { << d, i >> : i \in s..Min(s + BatchWidth - 1, LastId) }

\* A batch loop that starts again from the first identifier.
BatchIds_Restart(d, s) == [k \in 1..Min(BatchWidth, LastId) |-> << d, k >>]

\* batch.push(`${dateStr}-${i}`): the identifiers in the order of the calls.
BatchIds(d, s) == [k \in 1..(Min(s + BatchWidth - 1, LastId) - s + 1) |-> << d, s + k - 1 >>]

\* scanNoticesOnDate: the checkNotice calls of one batch are started; a call
\* that has not settled stays outstanding (nothing cancels it).
ScanIssue ==
    /\ pc = "scan_issue"
    /\ LET batch == Batch(dates[dateIdx], start)
       IN probes' = [id \in batch \cup PendingIds(probes) |->
                        IF id \in batch THEN PendingProbe ELSE probes[id]]
    /\ probed' = probed \o BatchIds(dates[dateIdx], start)
    /\ issued' = issued \cup {"NOTICE"}
    /\ pc' = "scan_wait"
    /\ UNCHANGED << text, tzOffset, xpc, parsed, schedule, links, picks, company, candidate,
                    verdict, dateVars, storeVars, req, result, nseVars, smeNoticeId, bseNotice, dates, dateIdx,
                    start, pdfFetch, sessRet, sessionVars >>

Matches(ps, ids) ==
    { id \in ids \cap DOMAIN ps : ps[id].st = "fulfilled" /\ ps[id].value.found }

\* for (const result of results): the first fulfilled result with a value.
FirstMatch(ps, ids) ==
    LET ms == Matches(ps, ids)
        first == CHOOSE id \in ms : \A other \in ms : id[2] <= other[2]
    IN ps[first].value

\* scanNoticesOnDate after the batch settled, and the loops around it.
ScanInspect ==
    /\ pc = "scan_wait"
    /\ BatchSettled(probes)
    /\ LET batch == Batch(dates[dateIdx], start)
       IN IF Matches(probes, batch) # {}
          THEN /\ bseNotice' = FirstMatch(probes, batch)
               /\ pc' = "bse_done"
               /\ UNCHANGED << dateIdx, start >>
          ELSE IF start + BatchWidth <= LastId
               THEN /\ start' = start + BatchWidth
                    /\ pc' = "scan_issue"
                    /\ UNCHANGED << bseNotice, dateIdx >>
               ELSE IF dateIdx < Len(dates)
                    THEN /\ dateIdx' = dateIdx + 1
                         /\ start' = 1
                         /\ pc' = "scan_issue"
                         /\ UNCHANGED bseNotice
                    ELSE /\ bseNotice' = NoNotice
                         /\ pc' = "bse_done"
                         /\ UNCHANGED << dateIdx, start >>
    /\ UNCHANGED << extractVars, req, result, nseVars, issued, smeNoticeId, dates, probes,
                    pdfFetch, sessRet, sessionVars >>

\* getUnlockPercentages after findBSENotice (whose locals are gone).
AfterFindBSE ==
    /\ pc = "bse_done"
    /\ probes' = <<>>
    /\ IF bseNotice.found /\ bseNotice.annexureUrl # "null"
       THEN /\ pdfFetch' = [NoFetch EXCEPT !.st = "pending", !.attempts = <<"axios">>]
            /\ issued' = issued \cup {"PDF"}
            /\ pc' = "pdf_wait"
            /\ UNCHANGED result
       ELSE /\ result' = IF bseNotice.found /\ bseNotice.noticeId # NoId
                         THEN ClientFetchSignal(bseNotice.noticeId)
                         ELSE NoNoticeResult(req)
            /\ pc' = "done"
            /\ UNCHANGED << pdfFetch, issued >>
    /\ UNCHANGED << extractVars, req, nseVars, smeNoticeId, bseNotice, dates, dateIdx, start,
                    sessRet, sessionVars >>

\* downloadBSEPDF after its await; a throw is caught by getUnlockPercentages.
PdfResponse ==
    /\ pc = "pdf_wait"
    /\ \E resp \in PdfResponses :
       \E curl \in CurlBinaryRuns(resp) :
          LET got == DownloadBSEPDF(resp, curl)
          IN /\ pdfFetch' = got
             /\ issued' = issued \cup
                   (IF Len(got.attempts) > 1 THEN {"CURL_BINARY"} ELSE {})
             /\ IF got.st = "raised"
                THEN /\ result' = ClientFetchSignal(bseNotice.noticeId)
                     /\ pc' = "done"
                ELSE /\ pc' = "pdf_parse"
                     /\ UNCHANGED result
    /\ UNCHANGED << extractVars, req, nseVars, smeNoticeId, bseNotice, scanVars, sessRet, sessionVars >>

\* parseLockInData on the BSE document, and the return with source BSE.
PdfParse ==
    /\ pc = "pdf_parse"
    /\ \E p \in ParseOutcomes :
          result' = IF p.raised
                    THEN ClientFetchSignal(bseNotice.noticeId)
                    ELSE ScheduleResult(p.data, "BSE", bseNotice.noticeId, now)
    /\ pc' = "done"
    /\ UNCHANGED << extractVars, req, nseVars, issued, smeNoticeId, bseNotice, scanVars, pdfFetch,
                    sessRet, sessionVars >>

Next ==
    \/ Start
    \/ FindNSECircular
    \/ NSEApiResponse
    \/ AfterFindNSE
    \/ NSEZipResponse
    \/ NSEParse
    \/ FindBSENotice
    \/ SMEListResponse
    \/ AttemptSession
    \/ AttemptSessionResponse
    \/ SMECheckNotice
    \/ ProbeSettle
    \/ SMEFinish
    \/ ScanDates
    \/ ScanIssue
    \/ ScanInspect
    \/ AfterFindBSE
    \/ PdfResponse
    \/ PdfParse

Spec == Init /\ [][Next]_vars


\* The first attempt of a process whose local time is UTC: no session is
\* cached yet.
InitFirst ==
    /\ Init
    /\ bseCookies = "null"
    /\ tzOffset = 0

\* Every request of the attempt returns or fails (each has a timeout), and
\* the handler continues when it does.
SpecFair == InitFirst /\ [][Next]_vars /\ WF_vars(Next)

\* ------------------------------------------------------- time in the scan

\* The batches scanNoticesOnDate has started so far.
BatchesStarted ==
    Cardinality({ i \in 1..Len(probed) : (probed[i][2] - 1) % BatchWidth = 0 })

\* Time passes while the scan awaits its batches: every notice request may
\* take up to its timeout and every curl fallback blocks the process, and
\* the scan has up to 110 batches. Each of the model's batches, which stand for
\* them, takes up to TickStep minutes.
Elapse ==
    /\ pc = "scan_wait"
    /\ PendingIds(probes) # {}
    /\ now + TickStep <= MaxNow
    /\ now + TickStep <= bseCookieTime + BatchesStarted * TickStep
    /\ now' = now + TickStep
    /\ UNCHANGED << bseCookies, bseCookieTime, spc, snow, lastVisit >>
    /\ UNCHANGED << attemptVars, extractVars >>

NextTimed ==
    \/ Next
    \/ Elapse

SpecTimed == InitFirst /\ [][NextTimed]_vars

\* ------------------------------------------- callers of getBSESession

InitSession ==
    /\ req \in { r \in Requests : r.companyName = "" /\ r.listingDateISO = ""
                                  /\ r.exchange = <<>> }
    /\ pc = "session"
    /\ InitAttemptVars
    /\ now = 0
    /\ bseCookies = "null"
    /\ bseCookieTime = 0
    /\ lastVisit = 0 - 1
    /\ spc = [c \in Callers |-> "idle"]
    /\ snow = [c \in Callers |-> 0]
    /\ InitExtractVars
    /\ tzOffset = 0

SessionCall(c) ==
    /\ pc = "session"
    /\ GetBSESession_Begin(c)
    /\ UNCHANGED << attemptVars, extractVars >>

SessionResponse(c) ==
    /\ pc = "session"
    /\ \E outcome \in HomepageOutcomes : GetBSESession_End(c, outcome)
    /\ UNCHANGED << attemptVars, extractVars >>

Tick ==
    /\ pc = "session"
    /\ now + TickStep <= MaxNow
    /\ now' = now + TickStep
    /\ UNCHANGED << bseCookies, bseCookieTime, spc, snow, lastVisit >>
    /\ UNCHANGED << attemptVars, extractVars >>

NextSession ==
    \/ \E c \in Callers : SessionCall(c)
    \/ \E c \in Callers : SessionResponse(c)
    \/ Tick

SpecSession == InitSession /\ [][NextSession]_vars

\* ---------------------------------------------------------- extraction

\* No resolution attempt and no session call is going on.
IdleResolution(at) ==
    /\ req = [companyName |-> "", exchange |-> <<>>, listingDateISO |-> ""]
    /\ pc = at
    /\ InitAttemptVars
    /\ now = 0
    /\ bseCookies = "null"
    /\ bseCookieTime = 0
    /\ lastVisit = 0 - 1
    /\ spc = [c \in Callers |-> "idle"]
    /\ snow = [c \in Callers |-> 0]

\* parseLockInData is called on a document, in a process of some time zone.
InitExtract ==
    /\ IdleResolution("extract")
    /\ text \in Documents
    /\ tzOffset \in TimeZones
    /\ xpc = "pdf_wait"
    /\ parsed = NoParse
    /\ schedule = EmptySchedule
    /\ links = <<>>
    /\ picks = NoPicks
    /\ InitAuxVars

\* await pdf(pdfBuffer): the text is there, or pdf-parse threw.
ExtractText ==
    /\ pc = "extract"
    /\ xpc = "pdf_wait"
    /\ \E threw \in BOOLEAN : xpc' = IF threw THEN "raised" ELSE "text"
    /\ UNCHANGED << attemptVars, sessionVars, text, tzOffset, parsed, schedule, links, picks, auxVars >>

\* The rest of parseLockInData: format detection, the parser, buildUnlockEvents.
ParseText ==
    /\ pc = "extract"
    /\ xpc = "text"
    /\ parsed' = parseLockInData(text, tzOffset)
    /\ schedule' = buildUnlockEvents(parsed'.entries, parsed'.total)
    /\ xpc' = "parsed"
    /\ UNCHANGED << attemptVars, sessionVars, text, tzOffset, links, picks, auxVars >>

NextExtract ==
    \/ ExtractText
    \/ ParseText

SpecExtract == InitExtract /\ [][NextExtract]_vars

\* ---------------------------------------------------------- aggregation

\* buildUnlockEvents is called on a list of entries and their total.
InitAggregate ==
    /\ IdleResolution("aggregate")
    /\ text = <<>>
    /\ tzOffset = 0
    /\ xpc = "entries"
    /\ \E es \in SeqsUpTo(LockInEntries, MaxEntries) :
          parsed = [entries |-> es, total |-> SumShares(es), path |-> "given"]
    /\ schedule = EmptySchedule
    /\ links = <<>>
    /\ picks = NoPicks
    /\ InitAuxVars

BuildUnlockEvents ==
    /\ pc = "aggregate"
    /\ xpc = "entries"
    /\ schedule' = buildUnlockEvents(parsed.entries, parsed.total)
    /\ xpc' = "built"
    /\ UNCHANGED << attemptVars, sessionVars, text, tzOffset, parsed, links, picks, auxVars >>

NextAggregate == BuildUnlockEvents

SpecAggregate == InitAggregate /\ [][NextAggregate]_vars

\* ------------------------------------------------- annexure link selection

\* A notice page is given to parseNoticeHTML on the server and to
\* clientFetchBSENotice in the browser.
InitLinks ==
    /\ IdleResolution("links")
    /\ text = <<>>
    /\ tzOffset = 0
    /\ xpc = "idle"
    /\ parsed = NoParse
    /\ schedule = EmptySchedule
    /\ links \in SeqsUpTo(Anchors, MaxLinks)
    /\ picks = NoPicks
    /\ InitAuxVars

ServerSelect ==
    /\ pc = "links"
    /\ picks.server = "pending"
    /\ picks' = [picks EXCEPT !.server = "done",
                              !.serverUrl = ServerAnnexureUrl(links, 1)]
    /\ UNCHANGED << attemptVars, sessionVars, text, tzOffset, xpc, parsed, schedule, links,
                    auxVars >>

ClientSelect ==
    /\ pc = "links"
    /\ picks.client = "pending"
    /\ picks' = [picks EXCEPT !.client = "done",
                              !.clientUrl = ClientAnnexureUrl(links)]
    /\ UNCHANGED << attemptVars, sessionVars, text, tzOffset, xpc, parsed, schedule, links,
                    auxVars >>

NextLinks ==
    \/ ServerSelect
    \/ ClientSelect

SpecLinks == InitLinks /\ [][NextLinks]_vars

\* ------------------------------------------------------- candidate filters

\* A candidate text is put to the filter of findNSECircular, to the link
\* search of searchBSESMENotices and to the checks of parseNoticeHTML.
InitMatch ==
    /\ IdleResolution("match")
    /\ text = <<>>
    /\ tzOffset = 0
    /\ xpc = "idle"
    /\ parsed = NoParse
    /\ schedule = EmptySchedule
    /\ links = <<>>
    /\ picks = NoPicks
    /\ company \in MatchCompanies
    /\ candidate \in Candidates
    /\ verdict = NoVerdict
    /\ token = NoDateText
    /\ parsedDate = Pending
    /\ store = <<>>
    /\ refresh = IdleRefresh
    /\ imported = NotImported
    /\ probed = <<>>

NSEFilter ==
    /\ pc = "match"
    /\ verdict.nse = "pending"
    /\ verdict' = [verdict EXCEPT
          !.nse = IF NSECircularKept(candidate, SearchWords(NSENormalizedSearch(company)))
                  THEN "kept" ELSE "dropped"]
    /\ UNCHANGED << attemptVars, sessionVars, text, tzOffset, xpc, parsed, schedule, links,
                    picks, company, candidate, dateVars, storeVars, probed >>

SMEFilter ==
    /\ pc = "match"
    /\ verdict.sme = "pending"
    /\ verdict' = [verdict EXCEPT
          !.sme = IF SMELinkMatches(candidate, SearchWords(BSENormalizedSearch(company)))
                  THEN "kept" ELSE "dropped"]
    /\ UNCHANGED << attemptVars, sessionVars, text, tzOffset, xpc, parsed, schedule, links,
                    picks, company, candidate, dateVars, storeVars, probed >>

\* checkNotice(noticeId, normalizedSearch) from the identifier scan, or
\* checkNotice(noticeId, '') from searchBSESMENotices.
NoticeFilter ==
    /\ pc = "match"
    /\ verdict.notice = "pending"
    /\ \E normalizedSearch \in { BSENormalizedSearch(company), <<>> } :
          verdict' = [verdict EXCEPT
             !.notice = IF NoticePagePasses(candidate, normalizedSearch)
                        THEN "kept" ELSE "dropped",
             !.filter = normalizedSearch]
    /\ UNCHANGED << attemptVars, sessionVars, text, tzOffset, xpc, parsed, schedule, links,
                    picks, company, candidate, dateVars, storeVars, probed >>

NextMatch ==
    \/ NSEFilter
    \/ SMEFilter
    \/ NoticeFilter

SpecMatch == InitMatch /\ [][NextMatch]_vars

\* ------------------------------------------------------------ date parsing

DATE_MONTHS ==
    { "Jan", "Feb", "Mar", "Apr", "May", "Jun", "Jul", "Aug", "Sep", "Oct", "Nov", "Dec",
      "Aul!", "Mav", "Xyz" }

DateTokens == [d : {1, 15, 31}, mon : DATE_MONTHS, y : {1999, 2025, 2026}]

\* parseBSEDate is called on a day-month-year string.
InitDate ==
    /\ IdleResolution("date")
    /\ text = <<>>
    /\ tzOffset = 0
    /\ xpc = "idle"
    /\ parsed = NoParse
    /\ schedule = EmptySchedule
    /\ links = <<>>
    /\ picks = NoPicks
    /\ company = <<>>
    /\ candidate = <<>>
    /\ verdict = NoVerdict
    /\ token \in DateTokens
    /\ parsedDate = Pending
    /\ store = <<>>
    /\ refresh = IdleRefresh
    /\ imported = NotImported
    /\ probed = <<>>

ParseBSEDate ==
    /\ pc = "date"
    /\ parsedDate = Pending
    /\ parsedDate' = parseBSEDate(token)
    /\ UNCHANGED << attemptVars, sessionVars, text, tzOffset, xpc, parsed, schedule, links,
                    picks, company, candidate, verdict, token, storeVars, probed >>

NextDate == ParseBSEDate

SpecDate == InitDate /\ [][NextDate]_vars

\* ------------------------------------------------- refresh and import

\* The record store holds a list merged before; a refresh request and an
\* import request arrive.
InitStore ==
    /\ IdleResolution("store")
    /\ text = <<>>
    /\ tzOffset = 0
    /\ xpc = "idle"
    /\ parsed = NoParse
    /\ schedule = EmptySchedule
    /\ links = <<>>
    /\ picks = NoPicks
    /\ company = <<>>
    /\ candidate = <<>>
    /\ verdict = NoVerdict
    /\ token = NoDateText
    /\ parsedDate = Pending
    /\ store \in { mergeCompanies(<<>>, cs) : cs \in CompanyLists }
    /\ refresh = IdleRefresh
    /\ imported = NotImported
    /\ probed = <<>>

\* GET /api/unlock-data?refresh=true up to the await: const db = readDB().
RefreshRead ==
    /\ pc = "store"
    /\ refresh.rpc = "idle"
    /\ refresh' = [refresh EXCEPT !.rpc = "scraping", !.db = store]
    /\ UNCHANGED << attemptVars, sessionVars, text, tzOffset, xpc, parsed, schedule, links,
                    picks, company, candidate, verdict, dateVars, store, imported, probed >>

\* After the await: the scrape threw (the catch answers 500), or its data
\* are merged into the db read before the await and written.
RefreshWrite ==
    /\ pc = "store"
    /\ refresh.rpc = "scraping"
    /\ \/ /\ refresh' = [refresh EXCEPT !.rpc = "failed"]
          /\ UNCHANGED store
       \/ \E scraped \in CompanyLists :
             LET newData == DedupByName(scraped, <<>>)
             IN /\ store' = mergeCompanies(refresh.db, newData)
                /\ refresh' = [refresh EXCEPT !.rpc = "done", !.newData = newData]
    /\ UNCHANGED << attemptVars, sessionVars, text, tzOffset, xpc, parsed, schedule, links,
                    picks, company, candidate, verdict, dateVars, imported, probed >>

\* POST /api/import-data: readDB, mergeCompanies, writeDB without an await
\* between them.
ImportData ==
    /\ pc = "store"
    /\ ~imported.done
    /\ \E companies \in CompanyLists :
          /\ store' = mergeCompanies(store, companies)
          /\ imported' = [done |-> TRUE, during |-> refresh.rpc, companies |-> companies]
    /\ UNCHANGED << attemptVars, sessionVars, text, tzOffset, xpc, parsed, schedule, links,
                    picks, company, candidate, verdict, dateVars, refresh, probed >>

NextStore ==
    \/ RefreshRead
    \/ RefreshWrite
    \/ ImportData

SpecStore == InitStore /\ [][NextStore]_vars

\* ------------------------------------------------------------------- claims

BSERequestKinds == {"SME_LIST", "BSE_HOME", "NOTICE", "CURL_HTML", "PDF", "CURL_BINARY"}

BSEStages ==
    { "bse_find", "sme_wait", "sme_session", "scan_session", "home_wait",
      "sme_notice", "sme_notice_wait", "scan_dates", "scan_issue", "scan_wait",
      "bse_done", "pdf_wait", "pdf_parse" }

ScanStages == {"scan_session", "scan_dates", "scan_issue", "scan_wait"}

IsSchedule(r) == "unlockEvents" \in DOMAIN r

\* C1: with a non-empty listing date the NSE lookup is started first, whatever
\* the exchange hint; no BSE request is issued and no BSE stage runs before
\* the NSE stage has finished, the BSE stages run only when the NSE stage
\* produced no schedule with an unlock event, and every result with source
\* NSE has at least one unlock event.
C1_NSEFirst ==
    /\ (req.listingDateISO # "" /\ pc # "start") => nseStage # "pending"
    /\ (issued \cap BSERequestKinds # {}) => nseStage = "finished"
    /\ pc \in BSEStages => (nseStage = "finished" /\ nseEvents = 0)
    /\ (pc = "done" /\ IsSchedule(result) /\ result.source = "NSE")
          => Len(result.unlockEvents) >= 1
    /\ (pc = "done" /\ "source" \in DOMAIN result /\ result.source = "BSE")
          => nseEvents = 0

\* C1 witness: a request hinting BSE whose NSE lookup was issued and failed,
\* after which the BSE stages issued notice probes.
C1_Witness ==
    /\ IsBSEHint(req.exchange)
    /\ {"NSE_API", "NSE_ZIP", "NOTICE"} \subseteq issued
    /\ nseStage = "finished"

\* The NSE lookup, the BSE SME search and the identifier scan all ran and
\* yielded nothing.
AllYieldNothing ==
    /\ pc = "done"
    /\ {"NSE_API", "SME_LIST", "NOTICE"} \subseteq issued
    /\ dates # <<>>
    /\ ~bseNotice.found

\* C2 as stated: when all three stages yield nothing the result is exactly
\* {needsBSESearch: true, listingDate, companyName} (no other field) for a
\* hint that names BSE, and NotFound otherwise.
C2_Original ==
    AllYieldNothing =>
        result = IF IsBSEHint(req.exchange)
                 THEN [needsBSESearch |-> TRUE, listingDate |-> req.listingDateISO,
                       companyName |-> req.companyName]
                 ELSE NotFound

\* C2 as amended: when all three stages yield nothing the result is
\* {needsBSESearch: true, listingDate, companyName, source: 'BSE'} with the
\* request's own listing date and company name for a hint that names BSE,
\* and NotFound otherwise.
C2_Delegation ==
    AllYieldNothing =>
        result = IF IsBSEHint(req.exchange)
                 THEN [needsBSESearch |-> TRUE, listingDate |-> req.listingDateISO,
                       companyName |-> req.companyName, source |-> "BSE"]
                 ELSE NotFound

\* C2 witness: the three stages yielded nothing for a hint naming BSE, and
\* the search delegation was returned.
C2_Witness ==
    /\ AllYieldNothing
    /\ IsBSEHint(req.exchange)
    /\ "needsBSESearch" \in DOMAIN result

MalformedInput ==
    req.companyName = "" \/ ~ParseISODate(req.listingDateISO).valid

\* C3 as stated: a request with an empty company name or an unparseable
\* listing date issues no network fetch and ends with NotFound, never with a
\* delegation signal, whatever the exchange hint.
C3_Original ==
    MalformedInput => (issued = {} /\ (pc = "done" => result = NotFound))

PrimaryThenFallbackOnce(f) ==
    /\ Len(f.attempts) \in {1, 2}
    /\ f.attempts[1] = "axios"
    /\ Len(f.attempts) = 2 => f.attempts[2] = "curl"
    /\ f.primary = "403" => f.attempts = <<"axios", "curl">>

\* C5: every notice fetch and every document download whose primary client
\* answered 403 made exactly one curl attempt, and no fetch made a third
\* attempt, whether the fallback succeeded or failed.
C5_OneFallback ==
    /\ \A id \in DOMAIN probes :
          probes[id].st # "pending" => PrimaryThenFallbackOnce(probes[id])
    /\ pdfFetch.st \in {"returned", "raised"} => PrimaryThenFallbackOnce(pdfFetch)

\* C5 witness: a notice fetch fell back to curl and the document download,
\* answered 403, fell back to curl and failed.
C5_Witness ==
    /\ "CURL_HTML" \in issued
    /\ pdfFetch.primary = "403"
    /\ pdfFetch.st = "raised"
    /\ pdfFetch.attempts = <<"axios", "curl">>

\* C6 as stated: every buffer downloadBSEPDF returns has at least 100 bytes,
\* whichever path the bytes came from; a shorter payload raises instead.
C6_Original ==
    pdfFetch.st = "returned" => pdfFetch.len >= MIN_PDF_BYTES

ScanRan == dates # <<>>

ScanExhausted == dateIdx = Len(dates) /\ start + BatchWidth > LastId

\* C7: no notice probe ever rejects (a failure of the primary fetch, of the
\* fallback or of the parsing settles it with null); a scan that returns
\* returns the first match of its last batch whatever the other probes of
\* the batch did, and it ends without a match only after the last batch of
\* the last candidate date.
C7_ProbeNeverRaises ==
    /\ \A id \in DOMAIN probes : probes[id].st \in {"pending", "fulfilled"}
    /\ \A id \in DOMAIN probes :
          (probes[id].st = "fulfilled" /\ probes[id].primary \in {"4xx", "throw", "403"}
             /\ ~probes[id].value.found) => probes[id].value = NoNotice
    /\ (pc = "bse_done" /\ ScanRan /\ Matches(probes, DOMAIN probes) # {})
          => bseNotice = FirstMatch(probes, DOMAIN probes)
    /\ (pc = "bse_done" /\ ScanRan /\ Matches(probes, DOMAIN probes) = {})
          => (ScanExhausted /\ bseNotice = NoNotice)

\* C7 witness: the scan moved on to a later candidate date after a batch in
\* which the primary fetch of a probe threw and the probe gave no match.
C7_Witness ==
    /\ pc = "scan_issue"
    /\ dateIdx > 1
    /\ \E id \in DOMAIN probes :
          /\ probes[id].primary = "throw"
          /\ probes[id].st = "fulfilled"
          /\ ~probes[id].value.found

\* C8 as stated: a call of getBSESession made (with no visit in flight) less
\* than the TTL after the last homepage visit issues no homepage request,
\* and one made the TTL or more after it issues one, whatever the outcome of
\* that visit was.
C8_Original ==
    [][ \A c \in Callers :
          (GetBSESession_Begin(c) /\ InFlight = {} /\ lastVisit >= 0)
             => ((spc'[c] = "wait") <=> (now - lastVisit >= BSE_COOKIE_TTL)) ]_vars

\* C9 as stated: at most one homepage visit is in flight at any time, the
\* stored cookies and timestamp are written together by the response of one
\* visit, and the stored timestamp never moves backwards.
C9_Original ==
    [][ /\ Cardinality({ c \in Callers : spc'[c] = "wait" }) <= 1
        /\ (bseCookies' # bseCookies \/ bseCookieTime' # bseCookieTime)
              => \E c \in Callers :
                    /\ spc[c] = "wait" /\ spc'[c] = "idle"
                    /\ bseCookieTime' = snow[c]
        /\ bseCookieTime' >= bseCookieTime ]_vars

\* C10: the identifier scan keeps at most BATCH_SIZE probes outstanding, all
\* of the current batch; a batch is issued, and the scan returns, only when
\* every probe issued before has settled; and a further batch or date is
\* probed only if no probe of the batch before returned a match.
C10_BoundedBatches ==
    /\ Cardinality(PendingIds(probes)) <= BatchWidth
    /\ BatchWidth <= BATCH_SIZE
    /\ pc = "scan_wait" => DOMAIN probes = Batch(dates[dateIdx], start)
    /\ (pc = "scan_issue" \/ (pc = "bse_done" /\ ScanRan))
          => PendingIds(probes) = {}
    /\ pc = "scan_issue" => Matches(probes, DOMAIN probes) = {}

\* C10 witness: a full batch of probes is outstanding on a later candidate
\* date, after the batches of the first date settled without a match.
C10_Witness ==
    /\ pc = "scan_wait"
    /\ dateIdx > 1
    /\ Cardinality(PendingIds(probes)) = BatchWidth


\* ---------------------------------------------------------- claims C11-C20

EntriesOf(p) == { p.entries[i] : i \in 1..Len(p.entries) }

HasToken(toks, tok) == \E i \in 1..Len(toks) : toks[i] = tok

\* C11: every LockInEntry a parser produced (structured parser, its
\* fallback, reconciliation parser, proximity fallback) has shares > 0, and
\* an entry that is not locked has a null unlockDate.
C11_EntryInvariant ==
    \A e \in EntriesOf(parsed) :
       /\ e.shares > 0
       /\ ~e.isLocked => e.unlockDate.null

\* C11 witness: the structured parser ran on a text with a row of 0 shares
\* and produced entries, one of them not locked.
C11_Witness ==
    /\ xpc = "parsed"
    /\ parsed.path = "structured"
    /\ HasToken(text, Num(<<0>>))
    /\ \E e \in EntriesOf(parsed) : ~e.isLocked

\* The digit runs of a text, and the ways to read numbers off a run: as a
\* whole, or split in two or three parts without leading zeros.
RunsOf(toks) == { i \in 1..Len(toks) : toks[i].k = "num" }

WholeOf(toks, i) == ParseInt(toks[i].digits)

Split2(ds) ==
    { << ParseInt(SubSeq(ds, 1, a)), ParseInt(SubSeq(ds, a + 1, Len(ds))) >> :
        a \in { x \in 1..(Len(ds) - 1) :
                  NoLeadingZero(SubSeq(ds, 1, x)) /\ NoLeadingZero(SubSeq(ds, x + 1, Len(ds))) } }

Split3(ds) ==
    { << ParseInt(SubSeq(ds, 1, p[1])), ParseInt(SubSeq(ds, p[1] + 1, p[2])),
         ParseInt(SubSeq(ds, p[2] + 1, Len(ds))) >> :
        p \in { q \in (1..(Len(ds) - 2)) \X (2..(Len(ds) - 1)) :
                  /\ q[1] < q[2]
                  /\ NoLeadingZero(SubSeq(ds, 1, q[1]))
                  /\ NoLeadingZero(SubSeq(ds, q[1] + 1, q[2]))
                  /\ NoLeadingZero(SubSeq(ds, q[2] + 1, Len(ds))) } }

\* The triplets (A, B, C) that can be read off a text from left to right,
\* each number from its own stretch of digits: three parts of one run, parts
\* of one run and another run, or three runs.
TripletsOf(toks) ==
    LET pairs == { q \in RunsOf(toks) \X RunsOf(toks) : q[1] < q[2] }
    IN UNION { Split3(toks[i].digits) : i \in RunsOf(toks) }
       \cup UNION { { << s[1], s[2], WholeOf(toks, q[2]) >> : s \in Split2(toks[q[1]].digits) } :
                      q \in pairs }
       \cup UNION { { << WholeOf(toks, q[1]), s[1], s[2] >> : s \in Split2(toks[q[2]].digits) } :
                      q \in pairs }
       \cup { << WholeOf(toks, t[1]), WholeOf(toks, t[2]), WholeOf(toks, t[3]) >> :
                t \in { u \in RunsOf(toks) \X RunsOf(toks) \X RunsOf(toks) :
                          u[1] < u[2] /\ u[2] < u[3] } }

HasTriplet(toks, shares) ==
    \E t \in TripletsOf(toks) :
       t[1] = shares /\ t[1] = t[3] - t[2] + 1 /\ t[1] > MIN_GLUED_SHARES

\* A run A with a later run C = A or C = A + 1: a range whose start is not
\* in the text.
HasImplicitRange(toks, shares) ==
    \E i \in RunsOf(toks), j \in RunsOf(toks) :
       /\ i < j
       /\ WholeOf(toks, i) = shares
       /\ shares >= MIN_SHARES
       /\ WholeOf(toks, j) \in {shares, shares + 1}

\* C12 as stated: every entry of parseUniversalBSEFormat has a triplet
\* (A, B, C) in the text with A = C - B + 1, A > 100 and shares = A.
C12_Original ==
    parsed.path \in {"reconcile", "proximity"}
       => \A e \in EntriesOf(parsed) : HasTriplet(text, e.shares)

\* C12 amended: every entry of the reconciliation pass has its share count A
\* in the text together with either B and C such that A = C - B + 1 and
\* A > 100, or a later run C with A = C or A = C - 1 and A >= 1000; the
\* entries of the proximity fallback have no triplet: each is locked, dated,
\* and carries a whole run of value >= 1000.
C12_TripletOrImplicit ==
    /\ parsed.path = "reconcile"
          => \A e \in EntriesOf(parsed) :
                HasTriplet(text, e.shares) \/ HasImplicitRange(text, e.shares)
    /\ parsed.path = "proximity"
          => \A e \in EntriesOf(parsed) :
                /\ e.isLocked /\ ~e.unlockDate.null
                /\ e.shares >= MIN_SHARES
                /\ \E i \in RunsOf(text) : WholeOf(text, i) = e.shares

\* C12 witness: the reconciliation pass emitted an entry that has a triplet
\* and an entry that only has an implicit range.
C12_Witness ==
    /\ xpc = "parsed"
    /\ parsed.path = "reconcile"
    /\ \E e \in EntriesOf(parsed) : HasTriplet(text, e.shares)
    /\ \E e \in EntriesOf(parsed) : ~HasTriplet(text, e.shares)

RECURSIVE SumEventShares(_)
SumEventShares(events) ==
    IF events = <<>> THEN 0 ELSE Head(events).shares + SumEventShares(Tail(events))

RECURSIVE SumScheduled(_)
SumScheduled(entries) ==
    IF entries = <<>> THEN 0
    ELSE (IF ~Head(entries).isLocked \/ ~Head(entries).unlockDate.null
          THEN Head(entries).shares ELSE 0)
         + SumScheduled(Tail(entries))

\* C13: the shares of the events buildUnlockEvents emits sum to the shares
\* of the entries that are not locked or have an unlock date.
C13_Conservation ==
    xpc = "built" => SumEventShares(schedule.unlockEvents) = SumScheduled(parsed.entries)

\* C13 witness: the aggregator was given two locked entries of the same
\* calendar date at different times, an entry that is not locked and a
\* locked entry without a date.
C13_Witness ==
    /\ xpc = "built"
    /\ \E e \in EntriesOf(parsed), f \in EntriesOf(parsed) :
          /\ e.isLocked /\ f.isLocked
          /\ ~e.unlockDate.null /\ ~f.unlockDate.null
          /\ e.unlockDate.day = f.unlockDate.day
          /\ e.unlockDate.minute # f.unlockDate.minute
    /\ \E e \in EntriesOf(parsed) : ~e.isLocked
    /\ Len(schedule.unlockEvents) = 2

RECURSIVE SumPercentages(_)
SumPercentages(events) ==
    IF events = <<>> THEN 0 ELSE Head(events).percentage + SumPercentages(Tail(events))

Distance(a, b) == IF a >= b THEN a - b ELSE b - a

\* part * 10^places = ScaledQuotient * whole + ScaledRemainder, one decimal
\* place at a time.
RECURSIVE ScaledRemainder(_, _, _)
ScaledRemainder(part, whole, places) ==
    IF places = 0 THEN part % whole
    ELSE (10 * ScaledRemainder(part, whole, places - 1)) % whole

RECURSIVE ScaledQuotient(_, _, _)
ScaledQuotient(part, whole, places) ==
    IF places = 0 THEN part \div whole
    ELSE 10 * ScaledQuotient(part, whole, places - 1)
         + (10 * ScaledRemainder(part, whole, places - 1)) \div whole

LockedWithoutDate(entries) ==
    \E i \in 1..Len(entries) : entries[i].isLocked /\ entries[i].unlockDate.null

\* C14 as stated: in every schedule the extractor produced with
\* totalShares > 0, the percentages of the events, in tenths of a percent,
\* sum to 1000 within one tenth per event.
C14_Original ==
    (xpc = "parsed" /\ schedule.totalShares > 0)
       => Distance(SumPercentages(schedule.unlockEvents), 1000) <= Len(schedule.unlockEvents)

\* C14 amended: with totalShares > 0 the percentages sum, within one tenth
\* per event, to the part of totalShares that the events carry, which is
\* all of it, 100.0, when no locked entry is without a date.
C14_ScheduledShare ==
    (xpc = "parsed" /\ schedule.totalShares > 0)
       => /\ Distance(SumPercentages(schedule.unlockEvents),
                      ScaledQuotient(SumEventShares(schedule.unlockEvents),
                                     schedule.totalShares, 3))
               <= Len(schedule.unlockEvents)
          /\ ~LockedWithoutDate(parsed.entries)
                => Distance(SumPercentages(schedule.unlockEvents), 1000)
                      <= Len(schedule.unlockEvents)

\* C14 witness: a schedule of two events whose rounded percentages do not
\* sum to 1000, from entries that all have a place in the schedule.
C14_Witness ==
    /\ xpc = "parsed"
    /\ schedule.totalShares > 0
    /\ ~LockedWithoutDate(parsed.entries)
    /\ Len(schedule.unlockEvents) >= 2
    /\ SumPercentages(schedule.unlockEvents) # 1000

\* C15: in every aggregator output, if there are shares that are not locked
\* there is exactly one null-date event, it is the first event and it is
\* labelled "Not under lock-in"; all other events have a date, and their
\* calendar dates are strictly ascending, hence pairwise distinct.
C15_NullDateFirst ==
    xpc = "built" =>
       LET events == schedule.unlockEvents
           nullDated == { i \in 1..Len(events) : events[i].date = 0 }
       IN /\ (\E e \in EntriesOf(parsed) : ~e.isLocked)
                => /\ nullDated = {1}
                   /\ events[1].label = "Not under lock-in"
          /\ \A i \in 1..Len(events) : i \notin nullDated => events[i].date > 0
          /\ \A i \in 1..Len(events), j \in 1..Len(events) :
                (i < j /\ i \notin nullDated /\ j \notin nullDated)
                   => events[i].date < events[j].date
          /\ nullDated \subseteq {1}

\* C15 witness: the aggregator was given a later date before an earlier one
\* and, last, an entry that is not locked, and emitted three events.
C15_Witness ==
    /\ xpc = "built"
    /\ Len(parsed.entries) = 3
    /\ parsed.entries[1].isLocked /\ parsed.entries[2].isLocked
    /\ ~parsed.entries[1].unlockDate.null /\ ~parsed.entries[2].unlockDate.null
    /\ parsed.entries[1].unlockDate.day > parsed.entries[2].unlockDate.day
    /\ ~parsed.entries[3].isLocked
    /\ Len(schedule.unlockEvents) = 3

\* Rows of the shape {shares} {from} {to} {DD-Mon-YYYY | Free}.
WellFormedRows ==
    { r \in StructuredRows :
        /\ Len(r) = 4
        /\ r[1].k = "num" /\ r[2].k = "num" /\ r[3].k = "num"
        /\ WholeOf(r, 1) > 0
        /\ \/ r[4].k = "free"
           \/ r[4].k = "date" /\ r[4].date.mon \in {"Jan", "Sep"} }

\* The calendar date printed in a row, as a date key.
PrintedDate(row) ==
    row[4].date.y * 10000 + (IF row[4].date.mon = "Jan" THEN 1 ELSE 9) * 100 + row[4].date.d

RECURSIVE SumRows(_, _)
SumRows(rows, kept) ==
    IF rows = <<>> THEN 0
    ELSE (IF kept[Head(rows)] THEN WholeOf(Head(rows), 1) ELSE 0) + SumRows(Tail(rows), kept)

AllRows == [r \in WellFormedRows |-> TRUE]
FreeRows == [r \in WellFormedRows |-> r[4].k = "free"]
RowsDated(key) == [r \in WellFormedRows |-> r[4].k = "date" /\ PrintedDate(r) = key]

\* What C17 promises of a text with the given rows.
ScheduleOfRows(rows) ==
    /\ Len(parsed.entries) = Len(rows)
    /\ \A i \in 1..Len(rows) : parsed.entries[i].shares = WholeOf(rows[i], 1)
    /\ schedule.totalShares = SumRows(rows, AllRows)
    /\ SumRows(rows, FreeRows) > 0
          => /\ schedule.unlockEvents # <<>>
             /\ schedule.unlockEvents[1].date = 0
             /\ schedule.unlockEvents[1].label = "Not under lock-in"
             /\ schedule.unlockEvents[1].shares = SumRows(rows, FreeRows)
    /\ \A i \in 1..Len(rows) :
          rows[i][4].k = "date"
             => \E j \in 1..Len(schedule.unlockEvents) :
                   /\ schedule.unlockEvents[j].date = PrintedDate(rows[i])
                   /\ schedule.unlockEvents[j].shares = SumRows(rows, RowsDated(PrintedDate(rows[i])))

\* C17 as stated: a structured text of two or more well-formed rows gives
\* one entry per row with the row's share count, totalShares the sum of the
\* rows, the Free rows summed into the first event, and every dated row
\* under the calendar date printed in it.
C17_Original ==
    xpc = "parsed" =>
       \A rows \in SeqsUpTo(WellFormedRows, MaxRows) :
          (Len(rows) >= 2 /\ text = JoinRows(<< <<LockInTok>> >> \o rows))
             => ScheduleOfRows(rows)

\* The same promise for a process whose local time is not ahead of UTC.
StructuredScenarioWestOfUTC ==
    (xpc = "parsed" /\ tzOffset <= 0) =>
       \A rows \in SeqsUpTo(WellFormedRows, MaxRows) :
          (Len(rows) >= 2 /\ text = JoinRows(<< <<LockInTok>> >> \o rows))
             => ScheduleOfRows(rows)

\* The text of scenario B: the run "1500000", 1 glued to 500000, and a date
\* right after it.
GluedRangeText == << Num(Digits(1500000)), DateTok(15, "Jan", 2026) >>

\* C18 as stated: from a text with a single digit run made of a range start
\* B glued to a range end C and a date in reach, the reconciliation parser
\* emits exactly one entry, of C - B + 1 shares, locked until that date
\* (for "1500000" and "15-Jan-2026": 500000 shares, 2026-01-15).
C18_Original ==
    (xpc = "parsed" /\ text = GluedRangeText)
       => /\ Len(parsed.entries) = 1
          /\ parsed.entries[1].shares = 500000 - 1 + 1
          /\ parsed.entries[1].isLocked
          /\ DateKey(parsed.entries[1].unlockDate) = 20260115

\* What the code makes of scenario B where local time is not ahead of UTC:
\* one locked entry of that date carrying the whole run.
GluedRangeTakenWhole ==
    (xpc = "parsed" /\ text = GluedRangeText /\ tzOffset <= 0)
       => /\ parsed.path = "proximity"
          /\ Len(parsed.entries) = 1
          /\ parsed.entries[1].shares = 1500000
          /\ parsed.entries[1].isLocked
          /\ DateKey(parsed.entries[1].unlockDate) = 20260115

\* C19 as stated: for every list of links of a notice page, the browser-side
\* extraction of clientFetchBSENotice selects the link the priority rules of
\* parseNoticeHTML select, or both select none.
C19_Original ==
    (picks.server = "done" /\ picks.client = "done")
       => picks.clientUrl = picks.serverUrl

\* Where the two agree: on a page with one link that the third rule of the
\* server would not refuse for its href.
SameLinkOnSingleAnchor ==
    (picks.server = "done" /\ picks.client = "done" /\ Len(links) = 1
       /\ (Includes(links[1].href, STR_DOT_PDF) \/ Includes(links[1].href, STR_DOWNLOAD_ATTACH)))
       => picks.clientUrl = picks.serverUrl

\* The listing date of the requests with a well-formed date is 30 September
\* 2025; the n-th day counted from 0 September 2025, as a notice date.
SeptemberDate(n) == IF n <= 30 THEN 20250900 + n ELSE 20251000 + (n - 30)

\* The date at position i of the order +0, +1, -1, +2, -2, ... around day n.
ForwardFirst(n, i) ==
    IF i % 2 = 0 THEN SeptemberDate(n + i \div 2) ELSE SeptemberDate(n - i \div 2)

\* The date at position i of the order +0, -1, +1, -2, +2, ... around day n.
BackwardFirst(n, i) ==
    IF i % 2 = 0 THEN SeptemberDate(n - i \div 2) ELSE SeptemberDate(n + i \div 2)

\* C20 as stated: the identifier scan visits the listing date, then +1, -1,
\* +2, -2, ... up to +5, -5, forward before backward at each offset, each
\* date at most once and none more than 5 days from the listing date.
C20_Original ==
    dateIdx >= 1 =>
       /\ dates[dateIdx] = ForwardFirst(30, dateIdx)
       /\ \A i \in 1..Len(dates), j \in 1..Len(dates) : dates[i] = dates[j] => i = j
       /\ \A i \in 1..Len(dates) :
             \E n \in (30 - MAX_OFFSET)..(30 + MAX_OFFSET) : dates[i] = SeptemberDate(n)

\* What the scan does: it visits day +0, -1, +1, -2, +2, ... of the listing
\* date as the local calendar of the process reads it, the day before the
\* ISO date in a time zone behind UTC; each date once.
ScanOrderBackwardFirst ==
    dateIdx >= 1 =>
       LET n == IF tzOffset < 0 THEN 29 ELSE 30
       IN /\ Len(dates) = 2 * ScanRadius + 1
          /\ dates[dateIdx] = BackwardFirst(n, dateIdx)
          /\ \A i \in 1..Len(dates), j \in 1..Len(dates) : dates[i] = dates[j] => i = j
\* ---------------------------------------------------------- claims C21-C30

HasListingMarker(body) ==
    \/ Includes(ToUpperCase(body), STR_LISTING_OF_EQUITY)
    \/ Includes(ToUpperCase(body), STR_LISTING_OF_THE_EQUITY)

\* At least min(n, 2) of the n significant words of the search string occur
\* in the normalized text, wherever they stand.
WordsOverlap(normalizedSearch, body) ==
    LET words == SearchWords(normalizedSearch)
        found == { i \in 1..Len(words) : Includes(StripOthers(ToUpperCase(body)), words[i]) }
    IN Cardinality(found) >= Min(Len(words), 2)

\* C21 as stated: parseNoticeHTML accepts a candidate page only if its text
\* holds a listing-notice marker and, when a company filter is supplied,
\* exactly when at least min(n, 2) of the company's n significant words
\* occur in the normalized page text, in any order.
C21_Original ==
    verdict.notice # "pending" =>
       /\ verdict.notice = "kept" => HasListingMarker(candidate)
       /\ verdict.filter # <<>> =>
             (verdict.notice = "kept"
                <=> HasListingMarker(candidate) /\ WordsOverlap(verdict.filter, candidate))

\* What parseNoticeHTML does with a company filter: it accepts exactly the
\* pages with a marker whose normalized text holds the whole normalized
\* search string, the words adjacent and in order.
NoticeNeedsWholeName ==
    (verdict.notice # "pending" /\ verdict.filter # <<>>) =>
       (verdict.notice = "kept"
          <=> /\ HasListingMarker(candidate)
              /\ Includes(StripOthers(ToUpperCase(candidate)), verdict.filter))

SomeSignificantWordIn(normalizedSearch, candidateText) ==
    \E i \in 1..Len(SearchWords(normalizedSearch)) :
       Includes(StripOthers(ToUpperCase(candidateText)), SearchWords(normalizedSearch)[i])

\* C28 as stated: the circular filter of findNSECircular and the link search
\* of searchBSESMENotices never accept a candidate whose normalized text
\* holds none of the company's significant words; a company name without a
\* significant word gets no candidate accepted.
C28_Original ==
    /\ verdict.nse = "kept" => SomeSignificantWordIn(NSENormalizedSearch(company), candidate)
    /\ verdict.sme = "kept" => SomeSignificantWordIn(BSENormalizedSearch(company), candidate)

\* The two filters do hold a word of every company name that has a
\* significant word.
SomeWordWhenSignificant ==
    /\ (verdict.nse = "kept" /\ SearchWords(NSENormalizedSearch(company)) # <<>>)
          => SomeSignificantWordIn(NSENormalizedSearch(company), candidate)
    /\ (verdict.sme = "kept" /\ SearchWords(BSENormalizedSearch(company)) # <<>>)
          => SomeSignificantWordIn(BSENormalizedSearch(company), candidate)

\* A link is an anchor with an href; its rule is the first of the four
\* passes of parseNoticeHTML that takes it (0: none does).
RuleOf(a) ==
    IF a.href = <<>> \/ IsAnnexureII(a) \/ ~\E p \in 1..SERVER_PASSES : ServerRule(p, a)
    THEN 0
    ELSE CHOOSE p \in 1..SERVER_PASSES :
            ServerRule(p, a) /\ \A o \in 1..(p - 1) : ~ServerRule(o, a)

\* The first link in document order among those of the highest-priority
\* rule that any link satisfies (0: no link satisfies a rule).
PriorityLink(as) ==
    LET ruled == { i \in 1..Len(as) : RuleOf(as[i]) > 0 }
    IN IF ruled = {} THEN 0
       ELSE CHOOSE i \in ruled :
               \A j \in ruled :
                  \/ RuleOf(as[i]) < RuleOf(as[j])
                  \/ RuleOf(as[i]) = RuleOf(as[j]) /\ i <= j

\* A link text that names the second annexure: annexure or annex, a blank,
\* a hyphen or nothing, then ii or 2.
MentionsAnnexureII(linkText) ==
    \E name \in { STR_ANNEXURE, STR_ANNEX }, sep \in { <<" ">>, <<"-">>, <<>> },
       number \in { <<"i", "i">>, <<"2">> } :
       Includes(linkText, name \o sep \o number)

\* C22 as stated: parseNoticeHTML returns the link of the highest-priority
\* rule that any link satisfies, within one rule the first link in document
\* order, and the text of the returned link never mentions Annexure II or
\* Annexure 2.
C22_Original ==
    picks.server = "done" =>
       LET i == PriorityLink(links)
       IN IF i = 0 THEN picks.serverUrl = <<>>
          ELSE /\ picks.serverUrl = links[i].href
               /\ ~MentionsAnnexureII(links[i].text)

\* The priority part of C22 alone holds of the code.
PriorityThenDocumentOrder ==
    picks.server = "done" =>
       picks.serverUrl = (IF PriorityLink(links) = 0 THEN <<>> ELSE links[PriorityLink(links)].href)

\* A row in which, for A = 5000, both the exact triplet (5000, 5000, 9999)
\* and the degenerate rule (A = B) apply; the date stands right after C.
ExactAndDegenerateText ==
    << Num(Digits(5000)), Num(Digits(5000)), Word(60), Num(Digits(9999)),
       DateTok(15, "Jan", 2026) >>

\* C23 as stated: the rules are tried in the order glued triple, A with a
\* glued B+C, separate A, B, C, degenerate A = B or A = B - 1; when the
\* exact triplet and the degenerate rule both apply to the same A, the exact
\* triplet is used and its three runs are consumed, so the entry is dated by
\* what follows C.
C23_Original ==
    (xpc = "parsed" /\ text = ExactAndDegenerateText)
       => /\ Len(parsed.entries) = 1
          /\ parsed.entries[1].shares = 5000
          /\ parsed.entries[1].isLocked
          /\ ~parsed.entries[1].unlockDate.null

\* What the code does with that row: the degenerate rule fires on B before
\* any C is looked at, the date is searched after B, and there is none in
\* reach.
DegenerateBeforeExact ==
    (xpc = "parsed" /\ text = ExactAndDegenerateText)
       => /\ parsed.path = "reconcile"
          /\ Len(parsed.entries) = 1
          /\ parsed.entries[1].shares = 5000
          /\ ~parsed.entries[1].isLocked

\* A row whose date lies between 60 and 120 characters after the range end,
\* and a range without a date followed by a row that has one.
DateFarOnRowText ==
    << Num(Digits(50001)), Num(Digits(5000)), Word(60), DateTok(15, "Jan", 2026) >>

DateOnNextRowText ==
    << Num(Digits(3000)), Num(Digits(5001)), Num(Digits(8000)), NL,
       Num(Digits(250)), DateTok(20, "Sep", 2025) >>

\* C24 as stated: a date wholly within the 120 characters after the consumed
\* range and before the next newline is found and makes the entry locked; a
\* date after the next newline is never used, and without a date on its row
\* the entry is not locked.
C24_Original ==
    /\ (xpc = "parsed" /\ text = DateFarOnRowText)
          => /\ Len(parsed.entries) = 1
             /\ parsed.entries[1].isLocked
             /\ ~parsed.entries[1].unlockDate.null
    /\ (xpc = "parsed" /\ text = DateOnNextRowText)
          => /\ Len(parsed.entries) = 1
             /\ ~parsed.entries[1].isLocked
             /\ parsed.entries[1].unlockDate.null

\* What the code does: the window is 60 characters, and a newline that is
\* the first character of the window does not end it.
SixtyCharactersAndLeadingNewline ==
    /\ (xpc = "parsed" /\ text = DateFarOnRowText)
          => /\ Len(parsed.entries) = 1
             /\ parsed.entries[1].shares = 5000
             /\ ~parsed.entries[1].isLocked
    /\ (xpc = "parsed" /\ text = DateOnNextRowText)
          => /\ Len(parsed.entries) = 1
             /\ parsed.entries[1].shares = 3000
             /\ parsed.entries[1].isLocked
             /\ parsed.entries[1].unlockDate.day \in {20250919, 20250920}

\* The month a misspelled month name stands for.
MonthMeant(mon) == IF mon = "Aul!" THEN 8 ELSE 5

\* C25 as stated: parseBSEDate maps a day-month-year token whose month is
\* one of the known misspellings, "Aul!" for Aug and "Mav" for May, to the
\* date of the token with the month spelled correctly, for every day and
\* year, and never returns no date for it.
C25_Original ==
    (parsedDate # Pending /\ token.mon \in {"Aul!", "Mav"})
       => /\ parsedDate.ok
          /\ parsedDate.day = DaysFromCivil(token.y, MonthMeant(token.mon), token.d)

\* What the code does: "Aul!" is read as Aug, "Mav" gives no date.
OnlyAulCorrected ==
    parsedDate # Pending =>
       /\ token.mon = "Aul!"
             => parsedDate.ok /\ parsedDate.day = DaysFromCivil(token.y, 8, token.d)
       /\ token.mon = "Mav" => ~parsedDate.ok

\* C29 as stated: in the structured parser every table row gives at most
\* one entry and its shares are added to totalShares at most once, also when
\* fewer than two rows are found and the line-oriented fallback runs.
C29_Original ==
    xpc = "parsed" =>
       \A rows \in SeqsUpTo(WellFormedRows, MaxRows) :
          text = JoinRows(<< <<LockInTok>> >> \o rows)
             => /\ Len(parsed.entries) <= Len(rows)
                /\ schedule.totalShares <= SumRows(rows, AllRows)

\* What the code does with a single row: the primary pattern finds it, the
\* fallback is given the entry and the total and finds the row again.
SingleRowCountedTwice ==
    xpc = "parsed" =>
       \A row \in WellFormedRows :
          text = JoinRows(<< <<LockInTok>>, row >>)
             => /\ parsed.path = "fallback"
                /\ Len(parsed.entries) = 2
                /\ parsed.entries[1].shares = WholeOf(row, 1)
                /\ parsed.entries[2].shares = WholeOf(row, 1)
                /\ schedule.totalShares = 2 * WholeOf(row, 1)

\* C30 as stated: when a refresh request and an import request overlap, the
\* companies written by the request that completes first are still in the
\* store after the other request has written its merged result.
C30_Original ==
    (refresh.rpc = "done" /\ imported.done /\ imported.during = "scraping")
       => \A i \in 1..Len(imported.companies) :
             HasKey(store, normalizeKey(imported.companies[i].companyName))

\* Without an overlap nothing is lost: an import before the refresh reads
\* the db, or after the refresh has written, leaves the companies of both in
\* the store.
NothingLostInSequence ==
    (refresh.rpc = "done" /\ imported.done /\ imported.during # "scraping")
       => /\ \A i \in 1..Len(imported.companies) :
                HasKey(store, normalizeKey(imported.companies[i].companyName))
          /\ \A i \in 1..Len(refresh.newData) :
                HasKey(store, normalizeKey(refresh.newData[i].companyName))

IsDelegationSignal(r) == "needsClientFetch" \in DOMAIN r \/ "needsBSESearch" \in DOMAIN r

\* The attempt has returned a Result, a DelegationSignal or NotFound.
Returned ==
    /\ pc = "done"
    /\ IsSchedule(result) \/ IsDelegationSignal(result) \/ result = NotFound

MaxDates == 2 * ScanRadius + 1

\* No identifier is probed twice, the numbers are in 1..LastId, the dates
\* are at most MaxDates, and so are the probes at most LastId * MaxDates.
ScanBounded ==
    /\ \A i, j \in 1..Len(probed) : probed[i] = probed[j] => i = j
    /\ \A i \in 1..Len(probed) :
          probed[i] \in SMENoticeIds \/ probed[i][2] \in 1..LastId
    /\ Cardinality({ probed[i][1] : i \in 1..Len(probed) }) <= MaxDates
    /\ Len(probed) <= LastId * MaxDates

\* C26: every resolution attempt whose fetches return or fail ends with a
\* Result, a DelegationSignal or NotFound; the scan probes each identifier at
\* most once, for N in 1..LastId and at most MaxDates dates.
C26_Terminates == []ScanBounded /\ <>Returned

\* The whole scan ran without a match: every identifier of every date was
\* probed, and the attempt returned.
C26_Witness ==
    /\ Returned
    /\ Len(probed) = LastId * MaxDates

\* A step that issues a notice-page request or a document download.
SendsBSERequest ==
    \/ pc \in {"sme_notice", "scan_issue"} /\ pc' \in {"sme_notice_wait", "scan_wait"}
    \/ pc = "bse_done" /\ pc' = "pdf_wait"

\* C27 as stated: a notice-page fetch or document download that sends session
\* cookies sends cookies harvested less than BSE_COOKIE_TTL before it is
\* issued.
C27_Original ==
    [][(SendsBSERequest /\ Truthy(bseCookies)) => now - bseCookieTime < BSE_COOKIE_TTL]_vars

\* The cookies are fresh where getBSESession was awaited just before: at the
\* notice request of the SME path and in the first batch of the scan.
FreshAfterGetBSESession ==
    [][(pc \in {"sme_notice", "scan_issue"} /\ pc' \in {"sme_notice_wait", "scan_wait"}
           /\ Len(probed) = 0 /\ Truthy(bseCookies))
          => now - bseCookieTime < BSE_COOKIE_TTL]_vars
====
